---- MODULE Spec2Model ----
(***************************************************************************)
(* A model of the ContentMine wikibase client: the lazily fetched,         *)
(* lock-protected edit token of Client (wikibase.go), and the struct to    *)
(* claim synchronisation of items (item.go, properties.go).                *)
(***************************************************************************)
EXTENDS Integers, Sequences, FiniteSets, TLC

\* ---------------------------------------------------------------------
\* Bounds
\* ---------------------------------------------------------------------

\* number of goroutines that call GetEditingToken on one Client
NumThreads == 3

\* longest list of claims the server reports for one property
MaxClaimsPerProp == 2

\* longest list of entries the server returns for one label search
MaxSearchResults == 2

\* ---------------------------------------------------------------------
\* Values
\* ---------------------------------------------------------------------

\* a nil pointer, a nil map, a nil error value holder
Nil == "nil"

\* csrf tokens the server may hand out
Tokens == {"t1", "t2"}

Threads == 1..NumThreads

\* no goroutine: the value of lockW when the write lock is free
NoThread == 0

\* what the transport gives back for action=query, meta=tokens:
\* an error, a body json cannot decode, a body without csrftoken, a token
TokenResponses ==
    {[kind |-> "neterr", csrftoken |-> Nil],
     [kind |-> "badjson", csrftoken |-> Nil],
     [kind |-> "json", csrftoken |-> Nil]}
    \cup {[kind |-> "json", csrftoken |-> t] : t \in Tokens}

VARIABLES
    editToken,    \* Client.editToken: Nil or the cached token
    lockW,        \* editTokenLock: the goroutine holding Lock, or NoThread
    lockR,        \* editTokenLock: the goroutines holding RLock
    pc,           \* position of each goroutine inside GetEditingToken
    initVal,      \* the local initVal of each goroutine
    ret,          \* what each goroutine's call returned
    fetches,      \* token requests issued by each goroutine's call
    fetchCount,   \* token requests issued in total
    firstFetch,   \* outcome of the first token request: "", "ok" or "fail"
    PropertyMap,  \* Client.PropertyMap: property label -> property ID
    ItemMap,      \* Client.ItemMap: item label -> item ID
    fields,       \* the annotated fields of the caller's record, in order
    header,       \* the ItemHeader embedded in the caller's record
    last,         \* the call that has just returned: arguments, error,
                  \* requests sent; NoOperation between two calls
    prev          \* what the caller knows of the call before: whether it
                  \* created the item or synchronised its claims

threadVars == <<lockW, lockR, pc, initVal, ret, fetches, fetchCount,
                firstFetch>>

clientVars == <<PropertyMap, ItemMap, fields, header, last, prev>>

vars == <<editToken, lockW, lockR, pc, initVal, ret, fetches, fetchCount,
          firstFetch, PropertyMap, ItemMap, fields, header, last, prev>>

\* ---------------------------------------------------------------------
\* Claim codec (properties.go): text is a sequence of one-character strings
\* ---------------------------------------------------------------------

\* the characters unicode.IsSpace accepts, as far as the model has them
WhiteSpace == {" ", "\n", "\t"}

Digits == <<"0", "1", "2", "3", "4", "5", "6", "7", "8", "9">>

DigitSet == {Digits[i] : i \in 1..10}

DigitValue(c) == CHOOSE d \in 0..9 : Digits[d + 1] = c

RECURSIVE ItoaNat(_)
ItoaNat(n) ==
    IF n < 10 THEN <<Digits[n + 1]>>
    ELSE Append(ItoaNat(n \div 10), Digits[(n % 10) + 1])

\* strconv.Itoa
Itoa(n) == IF n < 0 THEN <<"-">> \o ItoaNat(0 - n) ELSE ItoaNat(n)

RECURSIVE DigitsToNat(_, _)
DigitsToNat(s, acc) ==
    IF s = <<>> THEN acc
    ELSE DigitsToNat(Tail(s), acc * 10 + DigitValue(Head(s)))

\* strconv.Atoi: an optional sign, then one or more decimal digits
Atoi(s) ==
    LET signed == s # <<>> /\ Head(s) \in {"+", "-"}
        body == IF signed THEN Tail(s) ELSE s
    IN IF body = <<>> \/ \E i \in 1..Len(body) : body[i] \notin DigitSet
       THEN [err |-> "atoi", n |-> 0]
       ELSE [err |-> "",
             n |-> IF signed /\ Head(s) = "-"
                   THEN 0 - DigitsToNat(body, 0)
                   ELSE DigitsToNat(body, 0)]

RECURSIVE FieldsFrom(_, _, _)
FieldsFrom(s, cur, acc) ==
    IF s = <<>>
    THEN IF cur = <<>> THEN acc ELSE Append(acc, cur)
    ELSE IF Head(s) \in WhiteSpace
         THEN FieldsFrom(Tail(s), <<>>,
                         IF cur = <<>> THEN acc ELSE Append(acc, cur))
         ELSE FieldsFrom(Tail(s), Append(cur, Head(s)), acc)

\* strings.Fields: the maximal runs of non-space characters
Fields(s) == FieldsFrom(s, <<>>, <<>>)

RECURSIVE Join(_, _)
\* strings.Join
Join(words, sep) ==
    IF words = <<>> THEN <<>>
    ELSE IF Len(words) = 1 THEN words[1]
    ELSE words[1] \o sep \o Join(Tail(words), sep)

RECURSIVE SplitFrom(_, _, _, _)
SplitFrom(s, c, cur, acc) ==
    IF s = <<>> THEN Append(acc, cur)
    ELSE IF Head(s) = c
         THEN SplitFrom(Tail(s), c, <<>>, Append(acc, cur))
         ELSE SplitFrom(Tail(s), c, Append(cur, Head(s)), acc)

\* strings.Split on a one-character separator
Split(s, c) == SplitFrom(s, c, <<>>, <<>>)

\* a claim value as it is marshalled: kind names the Go value that is
\* encoded (string, quantityClaim, timeDataClaim, itemClaim)
NoClaimValue == [kind |-> "", s |-> <<>>, n |-> 0]

\* a codec that passes the text on as it is
stringClaimToAPIDataRaw(value) ==
    IF Len(value) = 0
    THEN [err |-> "", nil |-> TRUE, v |-> NoClaimValue]
    ELSE [err |-> "", nil |-> FALSE,
          v |-> [kind |-> "string", s |-> value, n |-> 0]]

\* stringClaimToAPIData: nil for the empty string, else the fields of the
\* text joined by single spaces
stringClaimToAPIData(value) ==
    IF Len(value) = 0
    THEN [err |-> "", nil |-> TRUE, v |-> NoClaimValue]
    ELSE [err |-> "", nil |-> FALSE,
          v |-> [kind |-> "string", s |-> Join(Fields(value), <<" ">>),
                 n |-> 0]]

\* itemClaimToAPIData: {entity-type: item, numeric-id: N} for Q<N>
itemClaimToAPIData(value) ==
    IF Len(value) = 0
    THEN [err |-> "item-empty", nil |-> FALSE, v |-> NoClaimValue]
    ELSE IF value[1] # "Q"
    THEN [err |-> "item-prefix", nil |-> FALSE, v |-> NoClaimValue]
    ELSE LET parts == Split(value, "Q") IN
         IF Len(parts) # 2
         THEN [err |-> "item-split", nil |-> FALSE, v |-> NoClaimValue]
         ELSE LET id == Atoi(parts[2]) IN
              IF id.err # ""
              THEN [err |-> "item-atoi", nil |-> FALSE, v |-> NoClaimValue]
              ELSE [err |-> "", nil |-> FALSE,
                    v |-> [kind |-> "item", s |-> <<"item">>, n |-> id.n]]

\* quantityClaimToAPIData: {amount: Itoa(value), unit: "1"}
quantityClaimToAPIData(value) ==
    [err |-> "", nil |-> FALSE,
     v |-> [kind |-> "quantity", s |-> Itoa(value), n |-> 1]]

\* precision of a time claim: day
TimePrecision == 11

\* timeDataClaimToAPIData: the text prefixed by +0000000, precision 11
timeDataClaimToAPIData(value) ==
    [err |-> "", nil |-> FALSE,
     v |-> [kind |-> "time", s |-> <<"+0000000">> \o value,
            n |-> TimePrecision]]

\* the Go types a struct field of the model may have
BaseTypes == {"string", "int", "time.Time", "wikibase.ItemPropertyType",
              "float64"}

\* a mapping that registers an int as a string
goTypeToWikibaseTypeIntAsString(f) ==
    CASE f.base = "time.Time" -> [err |-> "", datatype |-> "time"]
      [] f.base = "string" -> [err |-> "", datatype |-> "string"]
      [] f.base = "int" -> [err |-> "", datatype |-> "string"]
      [] f.base = "wikibase.ItemPropertyType" ->
             [err |-> "", datatype |-> "wikibase-item"]
      [] OTHER -> [err |-> "unsupported-type", datatype |-> ""]

\* goTypeToWikibaseType: the wikibase datatype of a field, one leading *
\* stripped from the type name
goTypeToWikibaseType(f) ==
    CASE f.base = "time.Time" -> [err |-> "", datatype |-> "time"]
      [] f.base = "string" -> [err |-> "", datatype |-> "string"]
      [] f.base = "int" -> [err |-> "", datatype |-> "quantity"]
      [] f.base = "wikibase.ItemPropertyType" ->
             [err |-> "", datatype |-> "wikibase-item"]
      [] OTHER -> [err |-> "unsupported-type", datatype |-> ""]

\* time.Time.MarshalText fails for a year outside 0..9999
MarshalTextFails(val) == val.n < 0 \/ val.n > 9999

\* the switch on full_type_name shared by getDataForClaim and
\* getItemCreateClaimValue, after the pointer has been followed
EncodeByType(f, val) ==
    CASE f.base = "time.Time" ->
             IF MarshalTextFails(val)
             THEN [err |-> "time-marshal", nil |-> FALSE, v |-> NoClaimValue]
             ELSE timeDataClaimToAPIData(val.s)
      [] f.base = "string" -> stringClaimToAPIData(val.s)
      [] f.base = "int" -> quantityClaimToAPIData(val.n)
      [] f.base = "wikibase.ItemPropertyType" -> itemClaimToAPIData(val.s)
      [] OTHER -> [err |-> "unsupported-type", nil |-> FALSE,
                   v |-> NoClaimValue]

\* getDataForClaim: nil bytes for a nil pointer or an empty string, else
\* the marshalled claim value
getDataForClaim(f, val) ==
    IF f.ptr /\ val.nil
    THEN [err |-> "", nil |-> TRUE, v |-> NoClaimValue]
    ELSE EncodeByType(f, val)

\* getItemCreateClaimValue: nil for a nil pointer or an empty string,
\* else dataValue{Type: datatype, Value: claim value}
getItemCreateClaimValue(f, val) ==
    IF f.ptr /\ val.nil
    THEN [err |-> "", nil |-> TRUE, type |-> "", v |-> NoClaimValue]
    ELSE LET dt == goTypeToWikibaseType(f)
             e == EncodeByType(f, val)
         IN IF dt.err # ""
            THEN [err |-> dt.err, nil |-> FALSE, type |-> "",
                  v |-> NoClaimValue]
            ELSE IF e.err # "" \/ e.nil
            THEN [err |-> e.err, nil |-> e.nil, type |-> "",
                  v |-> NoClaimValue]
            ELSE [err |-> "", nil |-> FALSE, type |-> dt.datatype,
                  v |-> e.v]

\* ---------------------------------------------------------------------
\* Records, headers, maps
\* ---------------------------------------------------------------------

\* a Go map with no entries
EmptyMap == [k \in {} |-> ""]

\* a map assignment that is lost
MapSetLost(m, k, v) == m

\* a store that writes the value to every key of the map
MapSetEvery(m, k, v) == [x \in DOMAIN m \cup {k} |-> v]

\* m[k] = v
MapSet(m, k, v) ==
    [x \in DOMAIN m \cup {k} |-> IF x = k THEN v ELSE m[x]]

\* ItemHeader{}: no ID, a nil PropertyIDs map
ZeroHeader == [ID |-> "", nilMap |-> TRUE, PropertyIDs |-> EmptyMap]

NoErr == [kind |-> "", name |-> ""]

Err(kind, name) == [kind |-> kind, name |-> name]

NoOperation ==
    [op |-> "", label |-> "", shape |-> "", flag |-> FALSE,
     err |-> NoErr, calls |-> <<>>, token |-> ""]

Operation(op, label, shape, flag, err, calls, token) ==
    [op |-> op, label |-> label, shape |-> shape, flag |-> flag,
     err |-> err, calls |-> calls, token |-> token]

NoSummary == [op |-> "", creates |-> 0]

\* identifiers the server hands out; "" is an identifier field it left out
PIDs == {"P1", "P2"}

QIDs == {"Q1", "Q2"}

GUIDs == {"G1", "G2"}

\* labels in the tags of the record
PropLabels == {"test", "name"}

ItemLabels == {"city"}

\* display labels passed to CreateItemInstance
DisplayLabels == {"", "blah"}

\* what the caller passes as i: a pointer to the record, the record by
\* value, a pointer to something that is no struct, a nil pointer, a
\* pointer to a struct without an ItemHeader
Shapes == {"ptr-struct", "struct", "ptr-other", "ptr-nil", "ptr-noheader"}

\* field values: nil (pointers), text s (strings, item references, the
\* RFC 3339 text of a time), number n (ints, the year of a time)
TextVal(s) == [nil |-> FALSE, s |-> s, n |-> 0]

IntVal(n) == [nil |-> FALSE, s |-> <<>>, n |-> n]

TimeVal(year, text) == [nil |-> FALSE, s |-> text, n |-> year]

NilVal == [nil |-> TRUE, s |-> <<>>, n |-> 0]

Field(property, item, ptr, base, val) ==
    [property |-> property, item |-> item, ptr |-> ptr, base |-> base,
     val |-> val]

\* the records of a session that uses every method of the client
SessionRecords ==
    { <<Field(<<"test">>, "", FALSE, "string", TextVal(<<"w", "b">>))>>,
      <<Field(<<>>, "city", FALSE, "wikibase.ItemPropertyType",
              TextVal(<<"Q", "7">>))>> }

\* label maps that MapPropertyAndItemConfiguration leaves behind
ResolvedMaps ==
    {EmptyMap,
     [l \in {"name"} |-> "P2"],
     [l \in PropLabels |-> IF l = "test" THEN "P1" ELSE "P2"]}

\* the records a caller synchronises
Records ==
    { \* SingleClaimTestStruct{Test: "wb"}
      <<Field(<<"test">>, "", FALSE, "string", TextVal(<<"w", "b">>))>>,
      \* SingleClaimWithoutInitialUploadTestStruct
      <<Field(<<"test", "omitoncreate">>, "", FALSE, "string",
              TextVal(<<"w", "b">>))>>,
      \* a text with irregular whitespace, an int left for later
      <<Field(<<"name">>, "", FALSE, "string",
              TextVal(<<" ", "a", "\n", " ", "b">>)),
        Field(<<"test", "omitoncreate">>, "", FALSE, "int", IntVal(42))>>,
      \* a nil pointer and an empty string: both encode to no value
      <<Field(<<"name">>, "", TRUE, "string", NilVal),
        Field(<<"test">>, "", FALSE, "string", TextVal(<<>>))>>,
      \* a field of a type the codec does not know, after a good one
      <<Field(<<"name">>, "", FALSE, "string", TextVal(<<"a">>)),
        Field(<<"test">>, "", FALSE, "float64", IntVal(1))>>,
      \* item references: a valid one with an item tag, a P number
      <<Field(<<"name">>, "city", FALSE, "wikibase.ItemPropertyType",
              TextVal(<<"Q", "7">>)),
        Field(<<"test", "omitoncreate">>, "", FALSE,
              "wikibase.ItemPropertyType", TextVal(<<"P", "7">>))>>,
      \* an untagged field, a time, an unknown modifier
      <<Field(<<>>, "", FALSE, "string", TextVal(<<"x">>)),
        Field(<<"name", "other">>, "", FALSE, "time.Time",
              TimeVal(2018, <<"2018-09-20T12:13:14Z">>))>>,
      \* two fields tagged with the same property
      <<Field(<<"name">>, "", FALSE, "string", TextVal(<<"a">>)),
        Field(<<"name">>, "", FALSE, "int", IntVal(5))>> }

\* a header restored from what an earlier session saved (README.md)
RestoredHeader ==
    [ID |-> "Q1", nilMap |-> FALSE, PropertyIDs |-> [p \in {"P1"} |-> "G1"]]

\* the headers a record starts a session with
Headers == {ZeroHeader, RestoredHeader}

\* ---------------------------------------------------------------------
\* Client.GetEditingToken, one goroutine per call
\* ---------------------------------------------------------------------

\* the outcome of decoding a token response: the token to cache, the error
TokenOutcome(resp) ==
    IF resp.kind = "neterr" THEN [tok |-> Nil, err |-> "transport"]
    ELSE IF resp.kind = "badjson" THEN [tok |-> Nil, err |-> "decode"]
    ELSE IF resp.csrftoken = Nil THEN [tok |-> Nil, err |-> "notoken"]
    ELSE [tok |-> resp.csrftoken, err |-> ""]

\* c.editTokenLock.RLock()
RLock(t) ==
    /\ pc[t] = "start"
    /\ lockW = NoThread
    /\ lockR' = lockR \cup {t}
    /\ pc' = [pc EXCEPT ![t] = "rlocked"]
    /\ UNCHANGED <<editToken, lockW, initVal, ret, fetches, fetchCount,
                   firstFetch>>

\* initVal := c.editToken; c.editTokenLock.RUnlock()
ReadUnlock(t) ==
    /\ pc[t] = "rlocked"
    /\ initVal' = [initVal EXCEPT ![t] = editToken]
    /\ lockR' = lockR \ {t}
    /\ pc' = [pc EXCEPT ![t] = "check"]
    /\ UNCHANGED <<editToken, lockW, ret, fetches, fetchCount, firstFetch>>

\* if initVal != nil { return *initVal, nil }
FastPath(t) ==
    /\ pc[t] = "check"
    /\ IF initVal[t] # Nil
       THEN /\ ret' = [ret EXCEPT ![t] = [tok |-> initVal[t], err |-> ""]]
            /\ pc' = [pc EXCEPT ![t] = "done"]
       ELSE /\ ret' = ret
            /\ pc' = [pc EXCEPT ![t] = "lock"]
    /\ UNCHANGED <<editToken, lockW, lockR, initVal, fetches, fetchCount,
                   firstFetch>>

\* Lock as a lock that does not wait for another writer
LockNoExclusion(t) ==
    /\ pc[t] = "lock"
    /\ lockR = {}
    /\ lockW' = t
    /\ pc' = [pc EXCEPT ![t] = "recheck"]
    /\ UNCHANGED <<editToken, lockR, initVal, ret, fetches, fetchCount,
                   firstFetch>>

\* c.editTokenLock.Lock()
Lock(t) ==
    /\ pc[t] = "lock"
    /\ lockW = NoThread
    /\ lockR = {}
    /\ lockW' = t
    /\ pc' = [pc EXCEPT ![t] = "recheck"]
    /\ UNCHANGED <<editToken, lockR, initVal, ret, fetches, fetchCount,
                   firstFetch>>

\* the write path without the second look at c.editToken
RecheckSkipped(t) ==
    /\ pc[t] = "recheck"
    /\ pc' = [pc EXCEPT ![t] = "get"]
    /\ UNCHANGED <<editToken, lockW, lockR, initVal, ret, fetches,
                   fetchCount, firstFetch>>

\* if c.editToken != nil { return *c.editToken, nil }  (deferred Unlock)
Recheck(t) ==
    /\ pc[t] = "recheck"
    /\ IF editToken # Nil
       THEN /\ ret' = [ret EXCEPT ![t] = [tok |-> editToken, err |-> ""]]
            /\ pc' = [pc EXCEPT ![t] = "done"]
            /\ lockW' = NoThread
       ELSE /\ ret' = ret
            /\ pc' = [pc EXCEPT ![t] = "get"]
            /\ lockW' = lockW
    /\ UNCHANGED <<editToken, lockR, initVal, fetches, fetchCount,
                   firstFetch>>

\* c.client.Get({action: query, meta: tokens}) is sent
IssueGet(t) ==
    /\ pc[t] = "get"
    /\ fetches' = [fetches EXCEPT ![t] = @ + 1]
    /\ fetchCount' = fetchCount + 1
    /\ pc' = [pc EXCEPT ![t] = "wait"]
    /\ UNCHANGED <<editToken, lockW, lockR, initVal, ret, firstFetch>>

\* a response handler that asks again when the fetch failed
RespondRetry(t) ==
    /\ pc[t] = "wait"
    /\ \E resp \in TokenResponses :
         LET o == TokenOutcome(resp) IN
           IF o.err # ""
           THEN /\ pc' = [pc EXCEPT ![t] = "get"]
                /\ UNCHANGED <<editToken, ret, lockW>>
                /\ firstFetch' = IF firstFetch = "" THEN "fail"
                                 ELSE firstFetch
           ELSE /\ editToken' = o.tok
                /\ ret' = [ret EXCEPT ![t] = o]
                /\ pc' = [pc EXCEPT ![t] = "done"]
                /\ lockW' = NoThread
                /\ firstFetch' = IF firstFetch = "" THEN "ok"
                                 ELSE firstFetch
    /\ UNCHANGED <<lockR, initVal, fetches, fetchCount>>

\* a response handler that returns from a failed fetch without Unlock
RespondKeepsLockOnError(t) ==
    /\ pc[t] = "wait"
    /\ \E resp \in TokenResponses :
         LET o == TokenOutcome(resp) IN
           /\ editToken' = IF o.err = "" THEN o.tok ELSE editToken
           /\ ret' = [ret EXCEPT
                        ![t] = IF o.err = "" THEN o
                               ELSE [tok |-> "", err |-> o.err]]
           /\ firstFetch' = IF firstFetch # "" THEN firstFetch
                            ELSE IF o.err = "" THEN "ok" ELSE "fail"
           /\ lockW' = IF o.err = "" THEN NoThread ELSE lockW
    /\ pc' = [pc EXCEPT ![t] = "done"]
    /\ UNCHANGED <<lockR, initVal, fetches, fetchCount>>

\* the Get returns: the three error returns, or c.editToken = csrftoken
\* and return *c.editToken, nil; the deferred Unlock runs in every case
Respond(t) ==
    /\ pc[t] = "wait"
    /\ \E resp \in TokenResponses :
         LET o == TokenOutcome(resp) IN
           /\ editToken' = IF o.err = "" THEN o.tok ELSE editToken
           /\ ret' = [ret EXCEPT
                        ![t] = IF o.err = "" THEN o
                               ELSE [tok |-> "", err |-> o.err]]
           /\ firstFetch' = IF firstFetch # "" THEN firstFetch
                            ELSE IF o.err = "" THEN "ok" ELSE "fail"
    /\ pc' = [pc EXCEPT ![t] = "done"]
    /\ lockW' = NoThread
    /\ UNCHANGED <<lockR, initVal, fetches, fetchCount>>

TokenInit ==
    /\ editToken = Nil
    /\ lockW = NoThread
    /\ lockR = {}
    /\ pc = [t \in Threads |-> "start"]
    /\ initVal = [t \in Threads |-> Nil]
    /\ ret = [t \in Threads |-> [tok |-> "", err |-> ""]]
    /\ fetches = [t \in Threads |-> 0]
    /\ fetchCount = 0
    /\ firstFetch = ""
    /\ PropertyMap = EmptyMap
    /\ ItemMap = EmptyMap
    /\ fields = <<>>
    /\ header = ZeroHeader
    /\ last = NoOperation
    /\ prev = NoSummary

TokenNext ==
    \/ \E t \in Threads : RLock(t) /\ UNCHANGED clientVars
    \/ \E t \in Threads : ReadUnlock(t) /\ UNCHANGED clientVars
    \/ \E t \in Threads : FastPath(t) /\ UNCHANGED clientVars
    \/ \E t \in Threads : Lock(t) /\ UNCHANGED clientVars
    \/ \E t \in Threads : Recheck(t) /\ UNCHANGED clientVars
    \/ \E t \in Threads : IssueGet(t) /\ UNCHANGED clientVars
    \/ \E t \in Threads : Respond(t) /\ UNCHANGED clientVars

SpecToken == TokenInit /\ [][TokenNext]_vars

\* ---------------------------------------------------------------------
\* Client.GetEditingToken called from one goroutine, start to return
\* ---------------------------------------------------------------------

TokenRequest(resp) == [action |-> "query", meta |-> "tokens", resp |-> resp]

\* GetEditingToken without the cache: every call asks the server
GetEditingTokenAlwaysFetches(tok) ==
    {LET o == TokenOutcome(resp) IN
       [token |-> IF o.err = "" THEN o.tok ELSE "",
        err |-> Err(o.err, ""),
        editToken |-> IF o.err = "" THEN o.tok ELSE tok,
        calls |-> <<TokenRequest(resp)>>] : resp \in TokenResponses}

\* the possible results of one call: the token returned, the error, the
\* cache afterwards and the requests sent
GetEditingTokenOutcomes(tok) ==
    IF tok # Nil
    THEN {[token |-> tok, err |-> NoErr, editToken |-> tok, calls |-> <<>>]}
    ELSE {LET o == TokenOutcome(resp) IN
            [token |-> IF o.err = "" THEN o.tok ELSE "",
             err |-> Err(o.err, ""),
             editToken |-> o.tok,
             calls |-> <<TokenRequest(resp)>>] : resp \in TokenResponses}

\* ---------------------------------------------------------------------
\* Client.CreateItemInstance (item.go)
\* ---------------------------------------------------------------------

\* the lists of claim GUIDs the server may report for one property
ClaimLists ==
    {<<>>} \cup {<<g>> : g \in GUIDs \cup {""}}
    \cup {[i \in 1..n |-> "G1"] : n \in 2..MaxClaimsPerProp}

\* the claims section of a created entity: property ID -> claim list
ClaimSections ==
    UNION {[D -> ClaimLists] : D \in {{}, PIDs}}

NoEntity == [nil |-> TRUE, id |-> "", claims |-> EmptyMap]

SampleEntity == [nil |-> FALSE, id |-> "Q1", claims |-> EmptyMap]

\* what the transport gives back for wbeditentity: an error, a body json
\* cannot decode, or {entity, success, error}
EntityResponses ==
    {[kind |-> "neterr", error |-> FALSE, success |-> 0, entity |-> NoEntity],
     [kind |-> "badjson", error |-> FALSE, success |-> 0,
      entity |-> NoEntity]}
    \cup {[kind |-> "json", error |-> TRUE, success |-> n, entity |-> e] :
            n \in {0, 1}, e \in {NoEntity, SampleEntity}}
    \cup {[kind |-> "json", error |-> FALSE, success |-> 0, entity |-> e] :
            e \in {NoEntity, SampleEntity}}
    \cup {[kind |-> "json", error |-> FALSE, success |-> 1,
           entity |-> NoEntity]}
    \cup {[kind |-> "json", error |-> FALSE, success |-> 1,
           entity |-> [nil |-> FALSE, id |-> q, claims |-> c]] :
            q \in QIDs \cup {""}, c \in ClaimSections}

\* for _, t := range parts[1:] { if t == "omitoncreate" ... }
HasOmitOnCreate(parts) ==
    \E i \in 2..Len(parts) : parts[i] = "omitoncreate"

RECURSIVE CreateClaimsSkipsFailures(_, _, _)
\* a loop that leaves out the fields it cannot encode and sends the rest
CreateClaimsSkipsFailures(flds, propMap, acc) ==
    IF flds = <<>> THEN [err |-> NoErr, claims |-> acc]
    ELSE LET f == Head(flds) IN
         IF f.property = <<>> \/ HasOmitOnCreate(f.property)
         THEN CreateClaimsSkipsFailures(Tail(flds), propMap, acc)
         ELSE IF f.property[1] \notin DOMAIN propMap
         THEN [err |-> Err("no-property-map", f.property[1]),
               claims |-> <<>>]
         ELSE LET property_id == propMap[f.property[1]]
                  claim == getItemCreateClaimValue(f, f.val)
              IN IF claim.err # ""
                 THEN CreateClaimsSkipsFailures(Tail(flds), propMap, acc)
                 ELSE CreateClaimsSkipsFailures(Tail(flds), propMap,
                        Append(acc,
                          [property |-> property_id,
                           snaktype |-> IF claim.nil THEN "novalue"
                                        ELSE "value",
                           nodatavalue |-> claim.nil,
                           type |-> claim.type,
                           value |-> claim.v]))

RECURSIVE CreateClaimsSkipsUnknownLabels(_, _, _)
\* a loop that leaves out the fields whose label the client has no
\* property for
CreateClaimsSkipsUnknownLabels(flds, propMap, acc) ==
    IF flds = <<>> THEN [err |-> NoErr, claims |-> acc]
    ELSE LET f == Head(flds) IN
         IF \/ f.property = <<>>
            \/ HasOmitOnCreate(f.property)
            \/ f.property[1] \notin DOMAIN propMap
         THEN CreateClaimsSkipsUnknownLabels(Tail(flds), propMap, acc)
         ELSE LET property_id == propMap[f.property[1]]
                  claim == getItemCreateClaimValue(f, f.val)
              IN IF claim.err # ""
                 THEN [err |-> Err("marshal", property_id), claims |-> <<>>]
                 ELSE CreateClaimsSkipsUnknownLabels(Tail(flds), propMap,
                        Append(acc,
                          [property |-> property_id,
                           snaktype |-> IF claim.nil THEN "novalue"
                                        ELSE "value",
                           nodatavalue |-> claim.nil,
                           type |-> claim.type,
                           value |-> claim.v]))

RECURSIVE CreateClaims(_, _, _)
\* the loop over the fields that builds the claims of the new item
CreateClaims(flds, propMap, acc) ==
    IF flds = <<>> THEN [err |-> NoErr, claims |-> acc]
    ELSE LET f == Head(flds) IN
         IF f.property = <<>> \/ HasOmitOnCreate(f.property)
         THEN CreateClaims(Tail(flds), propMap, acc)
         ELSE IF f.property[1] \notin DOMAIN propMap
         THEN [err |-> Err("no-property-map", f.property[1]),
               claims |-> <<>>]
         ELSE LET property_id == propMap[f.property[1]]
                  claim == getItemCreateClaimValue(f, f.val)
              IN IF claim.err # ""
                 THEN [err |-> Err("marshal", property_id), claims |-> <<>>]
                 ELSE CreateClaims(Tail(flds), propMap,
                        Append(acc,
                          [property |-> property_id,
                           snaktype |-> IF claim.nil THEN "novalue"
                                        ELSE "value",
                           nodatavalue |-> claim.nil,
                           type |-> claim.type,
                           value |-> claim.v]))

\* the orders in which Go may range over the keys of a map
RangeOrders(D) ==
    {o \in [1..Cardinality(D) -> D] :
        \A i, j \in 1..Cardinality(D) : i # j => o[i] # o[j]}

\* a loop that records none of the claims of the reply
RecordClaimIDsForgets(order, claims, m) == [err |-> NoErr, m |-> m]

RECURSIVE RecordClaimIDsTakesFirst(_, _, _)
\* a loop that records the first claim of a property that lists several
RecordClaimIDsTakesFirst(order, claims, m) ==
    IF order = <<>> THEN [err |-> NoErr, m |-> m]
    ELSE LET property == Head(order) IN
         IF Len(claims[property]) >= 1
         THEN RecordClaimIDsTakesFirst(Tail(order), claims,
                                       MapSet(m, property,
                                              claims[property][1]))
         ELSE RecordClaimIDsTakesFirst(Tail(order), claims, m)

RECURSIVE RecordClaimIDs(_, _, _)
\* for property, claims := range res.Entity.Claims, in the order given
RecordClaimIDs(order, claims, m) ==
    IF order = <<>> THEN [err |-> NoErr, m |-> m]
    ELSE LET property == Head(order) IN
         IF Len(claims[property]) > 1
         THEN [err |-> Err("too-many-claims", property), m |-> m]
         ELSE IF Len(claims[property]) = 1
         THEN RecordClaimIDs(Tail(order), claims,
                             MapSet(m, property, claims[property][1]))
         ELSE RecordClaimIDs(Tail(order), claims, m)

Outcome(err, calls, hdr, tok) ==
    [err |-> err, calls |-> calls, header |-> hdr, editToken |-> tok]

\* a handler that takes the entity of a reply without looking at success
CreateItemResponseTrusting(resp, calls, hdr, tok) ==
    IF resp.kind = "neterr"
    THEN {Outcome(Err("transport", ""), calls, hdr, tok)}
    ELSE IF resp.kind = "badjson"
    THEN {Outcome(Err("decode", ""), calls, hdr, tok)}
    ELSE IF resp.error THEN {Outcome(Err("api", ""), calls, hdr, tok)}
    ELSE IF resp.entity.nil
    THEN {Outcome(Err("entity-nil", ""), calls, hdr, tok)}
    ELSE {LET r == RecordClaimIDs(o, resp.entity.claims, hdr.PropertyIDs)
          IN Outcome(r.err, calls,
                     [ID |-> resp.entity.id, nilMap |-> FALSE,
                      PropertyIDs |-> r.m], tok) :
            o \in RangeOrders(DOMAIN resp.entity.claims)}

\* from the decoded response to the return
CreateItemResponse(resp, calls, hdr, tok) ==
    IF resp.kind = "neterr" THEN {Outcome(Err("transport", ""), calls, hdr, tok)}
    ELSE IF resp.kind = "badjson"
    THEN {Outcome(Err("decode", ""), calls, hdr, tok)}
    ELSE IF resp.error THEN {Outcome(Err("api", ""), calls, hdr, tok)}
    ELSE IF resp.success # 1
    THEN {Outcome(Err("success", ""), calls, hdr, tok)}
    ELSE IF resp.entity.nil
    THEN {Outcome(Err("entity-nil", ""), calls, hdr, tok)}
    ELSE {LET r == RecordClaimIDs(o, resp.entity.claims, hdr.PropertyIDs)
          IN Outcome(r.err, calls,
                     [ID |-> resp.entity.id, nilMap |-> FALSE,
                      PropertyIDs |-> r.m], tok) :
            o \in RangeOrders(DOMAIN resp.entity.claims)}

\* a creation request that is sent without the token
EntityRequestWithoutToken(token, label, claims, resp) ==
    [action |-> "wbeditentity", token |-> "", new |-> "item",
     label |-> label, claims |-> claims, resp |-> resp]

EntityRequest(token, label, claims, resp) ==
    [action |-> "wbeditentity", token |-> token, new |-> "item",
     label |-> label, claims |-> claims, resp |-> resp]

\* a test of the argument that lets a nil pointer through
ShapeErrNilPointerPasses(shape) ==
    IF shape = "struct" THEN Err("not-pointer", "")
    ELSE IF shape = "ptr-other" THEN Err("not-struct", "")
    ELSE IF shape = "ptr-noheader" THEN Err("no-header", "")
    ELSE NoErr

\* the tests of the argument i that open CreateItemInstance and
\* UploadClaimsForItem: v.Kind() != reflect.Ptr, s.Kind() != reflect.Struct
\* (the Elem of a nil pointer is the zero Value, of Kind Invalid),
\* !header.IsValid()
ShapeErr(shape) ==
    IF shape = "struct" THEN Err("not-pointer", "")
    ELSE IF shape \in {"ptr-other", "ptr-nil"} THEN Err("not-struct", "")
    ELSE IF shape = "ptr-noheader" THEN Err("no-header", "")
    ELSE NoErr

\* the possible results of CreateItemInstance(label, i) when the
\* transport answers the wbeditentity request with one of responses
CreateItemOutcomes(label, shape, flds, hdr, tok, propMap, responses) ==
    IF label = ""
    THEN {Outcome(Err("label-empty", ""), <<>>, hdr, tok)}
    ELSE IF ShapeErr(shape) # NoErr
    THEN {Outcome(ShapeErr(shape), <<>>, hdr, tok)}
    ELSE LET built == CreateClaims(flds, propMap, <<>>) IN
         IF built.err # NoErr
         THEN {Outcome(built.err, <<>>, hdr, tok)}
         ELSE UNION {
                IF t.err # NoErr
                THEN {Outcome(t.err, t.calls, hdr, t.editToken)}
                ELSE UNION {
                       CreateItemResponse(resp,
                         t.calls \o <<EntityRequest(t.token, label,
                                                    built.claims, resp)>>,
                         hdr, t.editToken) :
                       resp \in responses}
                : t \in GetEditingTokenOutcomes(tok)}

\* CreateItemInstance on a record of the caller
CreateItemInstanceOutcomes(label, shape, flds, hdr, tok, propMap) ==
    CreateItemOutcomes(label, shape, flds, hdr, tok, propMap,
                       EntityResponses)

\* ---------------------------------------------------------------------
\* Client.UploadClaimsForItem (item.go), createClaimOnItem and updateClaim
\* (properties.go)
\* ---------------------------------------------------------------------

\* what the transport gives back for wbcreateclaim and wbsetclaimvalue:
\* an error, a body json cannot decode, or {success, claim: {id}, error}
ClaimResponses ==
    {[kind |-> "neterr", error |-> FALSE, success |-> 0, id |-> ""],
     [kind |-> "badjson", error |-> FALSE, success |-> 0, id |-> ""]}
    \cup {[kind |-> "json", error |-> TRUE, success |-> n, id |-> "G1"] :
            n \in {0, 1}}
    \cup {[kind |-> "json", error |-> FALSE, success |-> 0, id |-> "G1"]}
    \cup {[kind |-> "json", error |-> FALSE, success |-> 1, id |-> g] :
            g \in GUIDs \cup {""}}

\* a decoder that looks at success before it looks at the error object
ClaimResponseErrSuccessFirst(resp, name) ==
    IF resp.kind = "neterr" THEN Err("transport", "")
    ELSE IF resp.kind = "badjson" THEN Err("decode", "")
    ELSE IF resp.success = 1 THEN NoErr
    ELSE IF resp.error THEN Err("api", name)
    ELSE Err("success", name)

\* the error a claim response decodes to
ClaimResponseErr(resp, name) ==
    IF resp.kind = "neterr" THEN Err("transport", "")
    ELSE IF resp.kind = "badjson" THEN Err("decode", "")
    ELSE IF resp.error THEN Err("api", name)
    ELSE IF resp.success # 1 THEN Err("success", name)
    ELSE NoErr

\* a request that claims a value for every field
SnakTypeAlwaysValue(data) == "value"

\* args["snaktype"], args["value"] of both claim requests
SnakType(data) == IF data.nil THEN "novalue" ELSE "value"

CreateClaimRequest(token, item, property_id, data, resp) ==
    [action |-> "wbcreateclaim", token |-> token, entity |-> item,
     property |-> property_id, snaktype |-> SnakType(data),
     value |-> data.v, bot |-> "1", resp |-> resp]

\* an update request that leaves the claim GUID out
UpdateClaimRequestUnaddressed(token, claim_id, data, resp) ==
    [action |-> "wbsetclaimvalue", token |-> token, claim |-> "",
     snaktype |-> SnakType(data), value |-> data.v, bot |-> "1",
     resp |-> resp]

UpdateClaimRequest(token, claim_id, data, resp) ==
    [action |-> "wbsetclaimvalue", token |-> token, claim |-> claim_id,
     snaktype |-> SnakType(data), value |-> data.v, bot |-> "1",
     resp |-> resp]

ClaimOutcome(err, id, calls, tok) ==
    [err |-> err, id |-> id, calls |-> calls, editToken |-> tok]

\* the possible results of createClaimOnItem(item, property_id, data)
createClaimOnItemOutcomes(item, property_id, data, tok) ==
    IF item = "" THEN {ClaimOutcome(Err("item-id-empty", ""), "", <<>>, tok)}
    ELSE IF property_id = ""
    THEN {ClaimOutcome(Err("property-id-empty", ""), "", <<>>, tok)}
    ELSE UNION {
           IF t.err # NoErr
           THEN {ClaimOutcome(t.err, "", t.calls, t.editToken)}
           ELSE {LET e == ClaimResponseErr(resp, property_id) IN
                   ClaimOutcome(e, IF e = NoErr THEN resp.id ELSE "",
                     t.calls \o <<CreateClaimRequest(t.token, item,
                                     property_id, data, resp)>>,
                     t.editToken) : resp \in ClaimResponses}
           : t \in GetEditingTokenOutcomes(tok)}

\* the possible results of updateClaim(claim_id, data)
updateClaimOutcomes(claim_id, data, tok) ==
    IF claim_id = ""
    THEN {ClaimOutcome(Err("claim-id-empty", ""), "", <<>>, tok)}
    ELSE UNION {
           IF t.err # NoErr
           THEN {ClaimOutcome(t.err, "", t.calls, t.editToken)}
           ELSE {LET e == ClaimResponseErr(resp, claim_id) IN
                   ClaimOutcome(e, claim_id,
                     t.calls \o <<UpdateClaimRequest(t.token, claim_id,
                                     data, resp)>>,
                     t.editToken) : resp \in ClaimResponses}
           : t \in GetEditingTokenOutcomes(tok)}

\* a sync engine that never finds a claim GUID on record
NeverHaveExistingClaim(m, property_id) == FALSE

\* id_val.IsValid() && ... && len(id_val.String()) > 0
HaveExistingClaim(m, property_id) ==
    property_id \in DOMAIN m /\ m[property_id] # ""

RECURSIVE UploadFieldsGoesOn(_, _, _, _, _, _, _)
\* a loop that goes on to the next field when a claim request has failed
UploadFieldsGoesOn(flds, item_id, allow_refresh, propMap, hdr, tok, calls) ==
    IF flds = <<>> THEN {Outcome(NoErr, calls, hdr, tok)}
    ELSE LET f == Head(flds) IN
         IF f.property = <<>>
         THEN UploadFieldsGoesOn(Tail(flds), item_id, allow_refresh,
                                 propMap, hdr, tok, calls)
         ELSE IF f.property[1] \notin DOMAIN propMap
         THEN {Outcome(Err("no-property-map", f.property[1]), calls, hdr,
                       tok)}
         ELSE LET property_id == propMap[f.property[1]]
                  have_existing_claim ==
                      HaveExistingClaim(hdr.PropertyIDs, property_id)
                  data == getDataForClaim(f, f.val)
              IN IF data.err # ""
                 THEN {Outcome(Err("marshal", property_id), calls, hdr, tok)}
                 ELSE IF ~have_existing_claim
                 THEN UNION {
                        UploadFieldsGoesOn(Tail(flds), item_id,
                          allow_refresh, propMap,
                          IF c.err # NoErr THEN hdr
                          ELSE [hdr EXCEPT !.PropertyIDs =
                                    MapSet(@, property_id, c.id)],
                          c.editToken, calls \o c.calls)
                        : c \in createClaimOnItemOutcomes(item_id,
                                  property_id, data, tok)}
                 ELSE IF allow_refresh
                 THEN UNION {
                        UploadFieldsGoesOn(Tail(flds), item_id,
                          allow_refresh, propMap, hdr, c.editToken,
                          calls \o c.calls)
                        : c \in updateClaimOutcomes(
                                  hdr.PropertyIDs[property_id], data, tok)}
                 ELSE UploadFieldsGoesOn(Tail(flds), item_id,
                        allow_refresh, propMap, hdr, tok, calls)

RECURSIVE UploadFields(_, _, _, _, _, _, _)
\* the loop over the fields: create the claim of a property that has
\* none, update the claim of one that has when allow_refresh is set
UploadFields(flds, item_id, allow_refresh, propMap, hdr, tok, calls) ==
    IF flds = <<>> THEN {Outcome(NoErr, calls, hdr, tok)}
    ELSE LET f == Head(flds) IN
         IF f.property = <<>>
         THEN UploadFields(Tail(flds), item_id, allow_refresh, propMap,
                           hdr, tok, calls)
         ELSE IF f.property[1] \notin DOMAIN propMap
         THEN {Outcome(Err("no-property-map", f.property[1]), calls, hdr,
                       tok)}
         ELSE LET property_id == propMap[f.property[1]]
                  have_existing_claim ==
                      HaveExistingClaim(hdr.PropertyIDs, property_id)
                  data == getDataForClaim(f, f.val)
              IN IF data.err # ""
                 THEN {Outcome(Err("marshal", property_id), calls, hdr, tok)}
                 ELSE IF ~have_existing_claim
                 THEN UNION {
                        IF c.err # NoErr
                        THEN {Outcome(c.err, calls \o c.calls, hdr,
                                      c.editToken)}
                        ELSE UploadFields(Tail(flds), item_id,
                               allow_refresh, propMap,
                               [hdr EXCEPT !.PropertyIDs =
                                    MapSet(@, property_id, c.id)],
                               c.editToken, calls \o c.calls)
                        : c \in createClaimOnItemOutcomes(item_id,
                                  property_id, data, tok)}
                 ELSE IF allow_refresh
                 THEN UNION {
                        IF c.err # NoErr
                        THEN {Outcome(c.err, calls \o c.calls, hdr,
                                      c.editToken)}
                        ELSE UploadFields(Tail(flds), item_id,
                               allow_refresh, propMap, hdr, c.editToken,
                               calls \o c.calls)
                        : c \in updateClaimOutcomes(
                                  hdr.PropertyIDs[property_id], data, tok)}
                 ELSE UploadFields(Tail(flds), item_id, allow_refresh,
                                   propMap, hdr, tok, calls)

\* UploadClaimsForItem without the test of the ID of the header
UploadClaimsForItemAnyID(shape, allow_refresh, flds, hdr, tok, propMap) ==
    IF shape # "ptr-struct"
    THEN {Outcome(Err("not-pointer", ""), <<>>, hdr, tok)}
    ELSE UploadFields(flds, hdr.ID, allow_refresh, propMap,
                      [hdr EXCEPT !.nilMap = FALSE], tok, <<>>)

\* the possible results of UploadClaimsForItem(i, allow_refresh)
UploadClaimsForItemOutcomes(shape, allow_refresh, flds, hdr, tok, propMap) ==
    IF ShapeErr(shape) # NoErr
    THEN {Outcome(ShapeErr(shape), <<>>, hdr, tok)}
    ELSE IF hdr.ID = ""
    THEN {Outcome(Err("item-id-nil", ""), <<>>, hdr, tok)}
    ELSE UploadFields(flds, hdr.ID, allow_refresh, propMap,
                      [hdr EXCEPT !.nilMap = FALSE], tok, <<>>)

\* ---------------------------------------------------------------------
\* Label resolution: getWikibaseThingIDForLabel (wikibase.go),
\* createPropertyWithLabel, MapItemConfigurationByLabel,
\* MapPropertyAndItemConfiguration (properties.go)
\* ---------------------------------------------------------------------

IDsOf(thing) == IF thing = "property" THEN PIDs ELSE QIDs

\* a display text the search returns as a close match of the label
NearMatch == "near"

\* the entries of a search reply for label: exact matches titled
\* <namespace>:<ID>, one exact match whose title has no colon, one close
\* match; a title is a sequence of pieces, the colon one of them
SearchItems(thing, label) ==
    {[displaytext |-> label, title |-> <<thing, ":", id>>] :
        id \in IDsOf(thing)}
    \cup {[displaytext |-> label, title |-> <<"untitled">>],
          [displaytext |-> NearMatch, title |-> <<thing, ":", "X9">>]}

\* what the transport gives back for list=wbsearch
SearchResponses(thing, label) ==
    {[kind |-> "neterr", items |-> <<>>],
     [kind |-> "badjson", items |-> <<>>]}
    \cup {[kind |-> "json", items |-> l] :
            l \in UNION {[1..n -> SearchItems(thing, label)] :
                           n \in 0..MaxSearchResults}}

\* a filter that keeps the close matches too
KeepsEveryItem(item, label) == TRUE

\* if item.DisplayText == label
IsExactMatch(item, label) == item.displaytext = label

RECURSIVE FilterItemsKeepsKind(_, _, _)
\* a filter that keeps the first part of the title, not the second
FilterItemsKeepsKind(items, label, filtered_items) ==
    IF items = <<>> THEN [err |-> NoErr, ids |-> filtered_items]
    ELSE IF IsExactMatch(Head(items), label)
    THEN LET parts == Split(Head(items).title, ":") IN
         IF Len(parts) # 2
         THEN [err |-> Err("bad-title", label), ids |-> <<>>]
         ELSE FilterItemsKeepsKind(Tail(items), label,
                                   Append(filtered_items, parts[1][1]))
    ELSE FilterItemsKeepsKind(Tail(items), label, filtered_items)

RECURSIVE FilterItems(_, _, _)
\* the loop that keeps the IDs of the exact matches
FilterItems(items, label, filtered_items) ==
    IF items = <<>> THEN [err |-> NoErr, ids |-> filtered_items]
    ELSE IF IsExactMatch(Head(items), label)
    THEN LET parts == Split(Head(items).title, ":") IN
         IF Len(parts) # 2
         THEN [err |-> Err("bad-title", label), ids |-> <<>>]
         ELSE FilterItems(Tail(items), label,
                          Append(filtered_items,
                                 IF parts[2] = <<>> THEN ""
                                 ELSE parts[2][1]))
    ELSE FilterItems(Tail(items), label, filtered_items)

RECURSIVE ExactTitles(_, _)
\* the titles of the entries of a reply whose display text is the label
ExactTitles(items, label) ==
    IF items = <<>> THEN <<>>
    ELSE IF Head(items).displaytext = label
    THEN <<Head(items).title>> \o ExactTitles(Tail(items), label)
    ELSE ExactTitles(Tail(items), label)

\* the search request and what came back: whether it failed, the titles of
\* the exact matches, the number of close matches
SearchRequest(thing, label, resp) ==
    [action |-> "query", list |-> "wbsearch", wbssearch |-> label,
     wbstype |-> thing, wbslanguage |-> "en", failed |-> resp.kind # "json",
     titles |-> ExactTitles(resp.items, label),
     near |-> Len(resp.items) - Len(ExactTitles(resp.items, label))]

\* the possible results of getWikibaseThingIDForLabel(thing, label)
getWikibaseThingIDForLabelOutcomes(thing, label) ==
    {LET r == IF resp.kind = "neterr"
              THEN [err |-> Err("transport", ""), ids |-> <<>>]
              ELSE IF resp.kind = "badjson"
              THEN [err |-> Err("decode", ""), ids |-> <<>>]
              ELSE FilterItems(resp.items, label, <<>>)
     IN [err |-> r.err, ids |-> r.ids,
         calls |-> <<SearchRequest(thing, label, resp)>>] :
       resp \in SearchResponses(thing, label)}

\* what the transport gives back for wbeditentity, new=property
PropertyResponses ==
    {r \in EntityResponses :
        r.kind # "json" \/ r.error \/ r.success # 1 \/ r.entity.nil}
    \cup {[kind |-> "json", error |-> FALSE, success |-> 1,
           entity |-> [nil |-> FALSE, id |-> q, claims |-> EmptyMap]] :
            q \in PIDs \cup {""}}

PropertyRequest(token, label, datatype, resp) ==
    [action |-> "wbeditentity", token |-> token, new |-> "property",
     label |-> label, datatype |-> datatype, bot |-> "1", resp |-> resp]

\* the possible results of createPropertyWithLabel(label, f); reading
\* res.Entity.ID of a reply without entity is a nil dereference
createPropertyWithLabelOutcomes(label, f, tok) ==
    IF label = ""
    THEN {ClaimOutcome(Err("label-empty", ""), "", <<>>, tok)}
    ELSE LET dt == goTypeToWikibaseType(f) IN
         IF dt.err # ""
         THEN {ClaimOutcome(Err(dt.err, label), "", <<>>, tok)}
         ELSE UNION {
                IF t.err # NoErr
                THEN {ClaimOutcome(t.err, "", t.calls, t.editToken)}
                ELSE {LET calls == t.calls \o
                            <<PropertyRequest(t.token, label, dt.datatype,
                                              resp)>>
                          e == IF resp.kind = "neterr"
                               THEN Err("transport", "")
                               ELSE IF resp.kind = "badjson"
                               THEN Err("decode", "")
                               ELSE IF resp.error THEN Err("api", label)
                               ELSE IF resp.success # 1
                               THEN Err("success", label)
                               ELSE IF resp.entity.nil
                               THEN Err("panic", "nil-dereference")
                               ELSE NoErr
                      IN ClaimOutcome(e,
                           IF e = NoErr THEN resp.entity.id ELSE "",
                           calls, t.editToken) :
                      resp \in PropertyResponses}
                : t \in GetEditingTokenOutcomes(tok)}

\* a switch that takes the first of several IDs
LabelsCaseFirstOfMany(labels) ==
    IF Len(labels) = 0 THEN "none" ELSE "one"

\* switch len(labels): case 0, case 1, default
LabelsCase(labels) ==
    IF Len(labels) = 0 THEN "none"
    ELSE IF Len(labels) = 1 THEN "one"
    ELSE "many"

\* a resolver that returns with empty maps when it fails
MapOutcomeForgets(err, calls, propMap, itemMap, tok) ==
    [err |-> err, calls |-> calls,
     PropertyMap |-> IF err = NoErr THEN propMap ELSE EmptyMap,
     ItemMap |-> IF err = NoErr THEN itemMap ELSE EmptyMap,
     editToken |-> tok]

MapOutcome(err, calls, propMap, itemMap, tok) ==
    [err |-> err, calls |-> calls, PropertyMap |-> propMap,
     ItemMap |-> itemMap, editToken |-> tok]

\* what the transport gives back for wbeditentity, new=item, of an item
\* that is created with a label and no claims
LabelOnlyResponses ==
    {r \in EntityResponses :
        r.kind # "json" \/ r.error \/ r.success # 1 \/ r.entity.nil}
    \cup {[kind |-> "json", error |-> FALSE, success |-> 1,
           entity |-> [nil |-> FALSE, id |-> q, claims |-> EmptyMap]] :
            q \in QIDs \cup {""}}

\* the possible results of MapItemConfigurationByLabel(label,
\* create_if_not_there), after the requests in calls
MapItemConfigurationByLabelOutcomes(label, create_if_not_there, propMap, itemMap, tok, calls) ==
    UNION {
      IF s.err # NoErr
      THEN {MapOutcome(s.err, calls \o s.calls, propMap, itemMap, tok)}
      ELSE IF LabelsCase(s.ids) = "none"
      THEN IF ~create_if_not_there
           THEN {MapOutcome(Err("not-found", label), calls \o s.calls,
                            propMap, itemMap, tok)}
           ELSE {IF c.err # NoErr
                 THEN MapOutcome(c.err, calls \o s.calls \o c.calls,
                                 propMap, itemMap, c.editToken)
                 ELSE MapOutcome(NoErr, calls \o s.calls \o c.calls,
                                 propMap,
                                 MapSet(itemMap, label, c.header.ID),
                                 c.editToken) :
                   c \in CreateItemOutcomes(label, "ptr-struct", <<>>,
                            ZeroHeader, tok, propMap, LabelOnlyResponses)}
      ELSE IF LabelsCase(s.ids) = "one"
      THEN {MapOutcome(NoErr, calls \o s.calls, propMap,
                       MapSet(itemMap, label, s.ids[1]), tok)}
      ELSE {MapOutcome(Err("ambiguous", label), calls \o s.calls, propMap,
                       itemMap, tok)}
      : s \in getWikibaseThingIDForLabelOutcomes("item", label)}

\* the property tag of one field: search, create if asked to, record
MapPropertyTagOutcomes(f, create_if_not_there, propMap, itemMap, tok, calls) ==
    LET tag == f.property[1] IN
    UNION {
      IF s.err # NoErr
      THEN {MapOutcome(s.err, calls \o s.calls, propMap, itemMap, tok)}
      ELSE IF LabelsCase(s.ids) = "none"
      THEN IF ~create_if_not_there
           THEN {MapOutcome(Err("not-found", tag), calls \o s.calls,
                            propMap, itemMap, tok)}
           ELSE {IF c.err # NoErr
                 THEN MapOutcome(c.err, calls \o s.calls \o c.calls,
                                 propMap, itemMap, c.editToken)
                 ELSE MapOutcome(NoErr, calls \o s.calls \o c.calls,
                                 MapSet(propMap, tag, c.id), itemMap,
                                 c.editToken) :
                   c \in createPropertyWithLabelOutcomes(tag, f, tok)}
      ELSE IF LabelsCase(s.ids) = "one"
      THEN {MapOutcome(NoErr, calls \o s.calls,
                       MapSet(propMap, tag, s.ids[1]), itemMap, tok)}
      ELSE {MapOutcome(Err("ambiguous", tag), calls \o s.calls, propMap,
                       itemMap, tok)}
      : s \in getWikibaseThingIDForLabelOutcomes("property", tag)}

RECURSIVE MapFields(_, _, _, _, _, _)
\* the loop over the fields of the struct type
MapFields(flds, create_if_not_there, propMap, itemMap, tok, calls) ==
    IF flds = <<>> THEN {MapOutcome(NoErr, calls, propMap, itemMap, tok)}
    ELSE LET f == Head(flds)
             afterProperty ==
                 IF f.property = <<>>
                 THEN {MapOutcome(NoErr, calls, propMap, itemMap, tok)}
                 ELSE MapPropertyTagOutcomes(f, create_if_not_there,
                                             propMap, itemMap, tok, calls)
         IN UNION {
              IF p.err # NoErr THEN {p}
              ELSE LET afterItem ==
                        IF f.item = "" THEN {p}
                        ELSE MapItemConfigurationByLabelOutcomes(f.item,
                               create_if_not_there, p.PropertyMap,
                               p.ItemMap, p.editToken, p.calls)
                   IN UNION {
                        IF q.err # NoErr THEN {q}
                        ELSE MapFields(Tail(flds), create_if_not_there,
                                       q.PropertyMap, q.ItemMap,
                                       q.editToken, q.calls)
                        : q \in afterItem}
              : p \in afterProperty}

\* the possible results of MapPropertyAndItemConfiguration(i,
\* create_if_not_there); reflect panics on NumField of a pointer type
MapPropertyAndItemConfigurationOutcomes(shape, create_if_not_there, flds, propMap, itemMap, tok) ==
    IF shape # "struct"
    THEN {MapOutcome(Err("panic", "NumField of non-struct type"), <<>>,
                     propMap, itemMap, tok)}
    ELSE MapFields(flds, create_if_not_there, propMap, itemMap, tok, <<>>)

\* ---------------------------------------------------------------------
\* The client used from one goroutine: one action per exported method
\* ---------------------------------------------------------------------

IsTokenRequest(call) == call.action = "query" /\ "meta" \in DOMAIN call

IsCreateClaim(call) == call.action = "wbcreateclaim"

IsUpdateClaim(call) == call.action = "wbsetclaimvalue"

\* the server succeeded on every request in calls: a token request got a
\* token, a claim request got success and the GUID of the claim
Served(calls) ==
    \A i \in 1..Len(calls) :
        /\ calls[i].resp.kind = "json"
        /\ IsTokenRequest(calls[i]) => calls[i].resp.csrftoken # Nil
        /\ (IsCreateClaim(calls[i]) \/ IsUpdateClaim(calls[i])) =>
             /\ ~calls[i].resp.error
             /\ calls[i].resp.success = 1
             /\ calls[i].resp.id # ""

\* the claims of a creation request for whose property the reply lists
\* one claim, with its GUID
ReportedClaims(request) ==
    {j \in 1..Len(request.claims) :
        LET p == request.claims[j].property
            reported == request.resp.entity.claims
        IN /\ p \in DOMAIN reported
           /\ Len(reported[p]) = 1
           /\ reported[p][1] # ""}

\* what the caller knows of a call that has returned: createEntity
\* succeeded, and for how many of the claims it sent the server reported
\* the claim, or syncClaims without refresh succeeded against a server
\* that served every request, and how many claims it created, or
\* syncClaims stopped at a claim request that failed, and how many claims
\* it had created by then
Summary(call) ==
    IF call.op = "CreateItemInstance" /\ call.err = NoErr
    THEN [op |-> "created",
          creates |-> Cardinality(
                        ReportedClaims(call.calls[Len(call.calls)]))]
    ELSE IF /\ call.op = "UploadClaimsForItem"
            /\ call.err = NoErr
            /\ ~call.flag
            /\ Served(call.calls)
    THEN [op |-> "synced",
          creates |-> Cardinality({i \in 1..Len(call.calls) :
                                      IsCreateClaim(call.calls[i])})]
    ELSE IF /\ call.op = "UploadClaimsForItem"
            /\ call.err # NoErr
            /\ \E i \in 1..Len(call.calls) :
                  /\ IsCreateClaim(call.calls[i])
                       \/ IsUpdateClaim(call.calls[i])
                  /\ ClaimResponseErr(call.calls[i].resp, "") # NoErr
    THEN [op |-> "stopped",
          creates |-> Cardinality({i \in 1..Len(call.calls) :
                         /\ IsCreateClaim(call.calls[i])
                         /\ ClaimResponseErr(call.calls[i].resp, "")
                              = NoErr})]
    ELSE NoSummary

GetEditingToken ==
    /\ last = NoOperation
    /\ \E o \in GetEditingTokenOutcomes(editToken) :
        /\ editToken' = o.editToken
        /\ last' = Operation("GetEditingToken", "", "", FALSE, o.err,
                             o.calls, o.token)
    /\ UNCHANGED <<PropertyMap, ItemMap, fields, header, prev>>
    /\ UNCHANGED threadVars

CreateItemInstance ==
    /\ last = NoOperation
    /\ \E label \in DisplayLabels, shape \in Shapes :
        \E o \in CreateItemInstanceOutcomes(label, shape, fields, header,
                                            editToken, PropertyMap) :
          /\ editToken' = o.editToken
          /\ header' = o.header
          /\ last' = Operation("CreateItemInstance", label, shape, FALSE,
                               o.err, o.calls, "")
    /\ UNCHANGED <<PropertyMap, ItemMap, fields, prev>>
    /\ UNCHANGED threadVars

UploadClaimsForItem ==
    /\ last = NoOperation
    /\ \E shape \in Shapes, allow_refresh \in BOOLEAN :
        \E o \in UploadClaimsForItemOutcomes(shape, allow_refresh, fields,
                                             header, editToken,
                                             PropertyMap) :
          /\ editToken' = o.editToken
          /\ header' = o.header
          /\ last' = Operation("UploadClaimsForItem", "", shape,
                               allow_refresh, o.err, o.calls, "")
    /\ UNCHANGED <<PropertyMap, ItemMap, fields, prev>>
    /\ UNCHANGED threadVars

MapPropertyAndItemConfiguration ==
    /\ last = NoOperation
    /\ \E shape \in Shapes, create_if_not_there \in BOOLEAN :
        \E o \in MapPropertyAndItemConfigurationOutcomes(shape,
                   create_if_not_there, fields, PropertyMap, ItemMap,
                   editToken) :
          /\ editToken' = o.editToken
          /\ PropertyMap' = o.PropertyMap
          /\ ItemMap' = o.ItemMap
          /\ last' = Operation("MapPropertyAndItemConfiguration", "", shape,
                               create_if_not_there, o.err, o.calls, "")
    /\ UNCHANGED <<fields, header, prev>>
    /\ UNCHANGED threadVars

MapItemConfigurationByLabel ==
    /\ last = NoOperation
    /\ \E label \in ItemLabels, create_if_not_there \in BOOLEAN :
        \E o \in MapItemConfigurationByLabelOutcomes(label,
                   create_if_not_there, PropertyMap, ItemMap, editToken,
                   <<>>) :
          /\ editToken' = o.editToken
          /\ PropertyMap' = o.PropertyMap
          /\ ItemMap' = o.ItemMap
          /\ last' = Operation("MapItemConfigurationByLabel", label, "",
                               create_if_not_there, o.err, o.calls, "")
    /\ UNCHANGED <<fields, header, prev>>
    /\ UNCHANGED threadVars

\* the caller takes the result; the client is ready for the next call
Return ==
    /\ last # NoOperation
    /\ prev' = Summary(last)
    /\ last' = NoOperation
    /\ UNCHANGED <<editToken, PropertyMap, ItemMap, fields, header>>
    /\ UNCHANGED threadVars

\* a step of goroutine t inside GetEditingToken
GetEditingTokenStep(t) ==
    /\ \/ RLock(t)
       \/ ReadUnlock(t)
       \/ FastPath(t)
       \/ Lock(t)
       \/ Recheck(t)
       \/ IssueGet(t)
       \/ Respond(t)
    /\ UNCHANGED clientVars

\* the goroutines under a scheduler that runs every goroutine that can
\* run, a lock that is granted when it stays free, and a transport whose
\* calls return
SpecTokenFair ==
    /\ TokenInit
    /\ [][TokenNext]_vars
    /\ \A t \in Threads : WF_vars(GetEditingTokenStep(t))

\* NewClient, and a record as the caller first makes it
Init ==
    /\ editToken = Nil
    /\ lockW = NoThread
    /\ lockR = {}
    /\ pc = [t \in Threads |-> "start"]
    /\ initVal = [t \in Threads |-> Nil]
    /\ ret = [t \in Threads |-> [tok |-> "", err |-> ""]]
    /\ fetches = [t \in Threads |-> 0]
    /\ fetchCount = 0
    /\ firstFetch = ""
    /\ PropertyMap = EmptyMap
    /\ ItemMap = EmptyMap
    /\ fields \in SessionRecords
    /\ header = ZeroHeader
    /\ last = NoOperation
    /\ prev = NoSummary

Next ==
    \/ GetEditingToken
    \/ CreateItemInstance
    \/ UploadClaimsForItem
    \/ MapPropertyAndItemConfiguration
    \/ MapItemConfigurationByLabel
    \/ Return

Spec == Init /\ [][Next]_vars

\* a client whose labels are resolved, and a record of any of the shapes
SyncInit ==
    /\ editToken = Nil
    /\ lockW = NoThread
    /\ lockR = {}
    /\ pc = [t \in Threads |-> "start"]
    /\ initVal = [t \in Threads |-> Nil]
    /\ ret = [t \in Threads |-> [tok |-> "", err |-> ""]]
    /\ fetches = [t \in Threads |-> 0]
    /\ fetchCount = 0
    /\ firstFetch = ""
    /\ PropertyMap \in ResolvedMaps
    /\ ItemMap = EmptyMap
    /\ fields \in Records
    /\ header \in Headers
    /\ last = NoOperation
    /\ prev = NoSummary

SyncNext ==
    \/ GetEditingToken
    \/ CreateItemInstance
    \/ UploadClaimsForItem
    \/ Return

SpecSync == SyncInit /\ [][SyncNext]_vars

\* the records whose tags a caller has resolved: a property tag, an item
\* tag, both on one field, a field of a type no property can have before
\* a pointer to an int, a pointer to a time
ResolveRecords ==
    { <<Field(<<"test">>, "", FALSE, "string", TextVal(<<"w", "b">>))>>,
      <<Field(<<>>, "city", FALSE, "wikibase.ItemPropertyType",
              TextVal(<<"Q", "7">>))>>,
      <<Field(<<"name", "omitoncreate">>, "city", FALSE,
              "wikibase.ItemPropertyType", TextVal(<<"Q", "7">>))>>,
      <<Field(<<"name">>, "", FALSE, "float64", IntVal(1)),
        Field(<<"test">>, "", TRUE, "int", IntVal(3))>>,
      <<Field(<<"test">>, "", TRUE, "time.Time",
              TimeVal(2018, <<"2018-09-20T12:13:14Z">>))>> }

\* a new client and a record whose labels are still to be resolved
ResolveInit ==
    /\ editToken = Nil
    /\ lockW = NoThread
    /\ lockR = {}
    /\ pc = [t \in Threads |-> "start"]
    /\ initVal = [t \in Threads |-> Nil]
    /\ ret = [t \in Threads |-> [tok |-> "", err |-> ""]]
    /\ fetches = [t \in Threads |-> 0]
    /\ fetchCount = 0
    /\ firstFetch = ""
    /\ PropertyMap = EmptyMap
    /\ ItemMap = EmptyMap
    /\ fields \in ResolveRecords
    /\ header = ZeroHeader
    /\ last = NoOperation
    /\ prev = NoSummary

ResolveNext ==
    \/ MapPropertyAndItemConfiguration
    \/ MapItemConfigurationByLabel
    \/ Return

SpecResolve == ResolveInit /\ [][ResolveNext]_vars

\* ---------------------------------------------------------------------
\* Claims about the edit token
\* ---------------------------------------------------------------------

AllDone == \A t \in Threads : pc[t] = "done"

Failed == {t \in Threads : pc[t] = "done" /\ ret[t].err # ""}

Succeeded == {t \in Threads : pc[t] = "done" /\ ret[t].err = ""}

\* C1 as stated: once every concurrent caller has returned, exactly one
\* token request was issued in total and all callers hold the same token.
C1_OneFetchAlways ==
    AllDone =>
        /\ fetchCount = 1
        /\ \E k \in Tokens :
             \A t \in Threads : ret[t] = [tok |-> k, err |-> ""]

\* C1 amended: when the first token request succeeds, exactly one request
\* is issued in total and every caller returns the identical token; in
\* general each caller that returns an error issued one request of its
\* own, at most one request succeeds, and all callers that return a token
\* return the identical string.
C1_OneFetchWhenFirstSucceeds ==
    AllDone =>
        /\ fetchCount = Cardinality(Failed)
                        + (IF Succeeded # {} THEN 1 ELSE 0)
        /\ \A t, u \in Succeeded : ret[t].tok = ret[u].tok
        /\ firstFetch = "ok" =>
             /\ fetchCount = 1
             /\ \E k \in Tokens :
                  \A t \in Threads : ret[t] = [tok |-> k, err |-> ""]

\* every caller found the cache empty on its first read, all returned,
\* and the one request that was issued succeeded
C1_Witness ==
    /\ AllDone
    /\ \A t \in Threads : initVal[t] = Nil
    /\ firstFetch = "ok"
    /\ fetchCount = 1

InFlight == {t \in Threads : pc[t] = "wait"}

\* C2: at most one token request is in flight, and a goroutine issues one
\* only while it holds the exclusive lock and the cache, re-checked under
\* that lock, is still empty; also after earlier requests failed.
C2_AtMostOneInFlight ==
    /\ Cardinality(InFlight) <= 1
    /\ \A t \in Threads :
         pc[t] \in {"get", "wait"} =>
             /\ lockW = t
             /\ lockR = {}
             /\ editToken = Nil

\* a request in flight after an earlier one failed, another caller queued
C2_Witness ==
    /\ InFlight # {}
    /\ Failed # {}
    /\ \E t \in Threads : pc[t] = "lock"

\* C4: a call whose fetch fails has issued exactly one request, returns
\* an error with an empty token and leaves the cache empty; no call issues
\* more than one request, and a call that completes while the cache is
\* still empty has performed a fetch of its own.
C4_FailedFetchOnceNoRetry ==
    [][\A t \in Threads :
         /\ fetches'[t] <= 1
         /\ (pc[t] # "done" /\ pc'[t] = "done" /\ ret'[t].err # "") =>
               /\ fetches'[t] = 1
               /\ ret'[t].tok = ""
               /\ editToken = Nil
               /\ editToken' = Nil
         /\ (pc'[t] = "done" /\ editToken' = Nil) =>
               /\ fetches'[t] = 1
               /\ ret'[t].err # ""]_vars

\* two calls failed one after the other, each with its own request
C4_Witness ==
    /\ Cardinality(Failed) >= 2
    /\ \A t \in Failed : fetches[t] = 1
    /\ fetchCount = 2
    /\ editToken = Nil

\* ---------------------------------------------------------------------
\* Claims about the calls of one goroutine
\* ---------------------------------------------------------------------

TokenRequestsIn(calls) ==
    {i \in 1..Len(calls) : IsTokenRequest(calls[i])}

EntityRequestsIn(calls) ==
    {i \in 1..Len(calls) : calls[i].action = "wbeditentity"}

\* C3: once the edit token is cached no step changes or clears it, no call
\* sends a token request, and GetEditingToken returns the cached token
\* without error and without any request, whatever the transport would
\* answer.
C3_TokenCacheIsPermanent ==
    [][editToken # Nil =>
          /\ editToken' = editToken
          /\ TokenRequestsIn(last'.calls) = {}
          /\ last'.op = "GetEditingToken" =>
                /\ last'.err = NoErr
                /\ last'.token = editToken
                /\ last'.calls = <<>>]_vars

\* GetEditingToken has returned the cached token without a request, after
\* a call that created the item with that token
C3_Witness ==
    /\ editToken # Nil
    /\ prev.op = "created"
    /\ last.op = "GetEditingToken"
    /\ last.err = NoErr
    /\ last.token = editToken
    /\ last.calls = <<>>

\* the indices of the annotated fields whose label is resolved
ResolvedFields ==
    {i \in 1..Len(fields) :
        /\ fields[i].property # <<>>
        /\ fields[i].property[1] \in DOMAIN PropertyMap}

\* the property ID of the annotated field i
PropertyOf(i) == PropertyMap[fields[i].property[1]]

AnnotatedIDs == {PropertyOf(i) : i \in ResolvedFields}

AllResolved ==
    \A i \in 1..Len(fields) : fields[i].property # <<>> => i \in ResolvedFields

AllEncode ==
    \A i \in 1..Len(fields) :
        fields[i].property # <<>> =>
            getDataForClaim(fields[i], fields[i].val).err = ""

CreatesOf(calls, p) ==
    {i \in 1..Len(calls) : IsCreateClaim(calls[i]) /\ calls[i].property = p}

UpdatesTo(calls, g) ==
    {i \in 1..Len(calls) : IsUpdateClaim(calls[i]) /\ calls[i].claim = g}

\* a step that is syncClaims(record, false) on a created record with an
\* empty claim-ID map and every label resolved, served by the server
FirstSync ==
    /\ last'.op = "UploadClaimsForItem"
    /\ ~last'.flag
    /\ last'.shape = "ptr-struct"
    /\ header.ID # ""
    /\ header.PropertyIDs = EmptyMap
    /\ AllResolved
    /\ Served(last'.calls)

\* the step sent one claim-create request per annotated property, none
\* for another property, and recorded the GUID of each reply
OneCreatePerProperty ==
    /\ \A i \in 1..Len(last'.calls) :
         IsCreateClaim(last'.calls[i]) =>
             last'.calls[i].property \in AnnotatedIDs
    /\ \A p \in AnnotatedIDs :
         /\ Cardinality(CreatesOf(last'.calls, p)) = 1
         /\ p \in DOMAIN header'.PropertyIDs
         /\ \A i \in CreatesOf(last'.calls, p) :
              header'.PropertyIDs[p] = last'.calls[i].resp.id

\* a step that is syncClaims(record, false) right after a served
\* syncClaims(record, false) that returned no error
SecondSync ==
    /\ prev.op = "synced"
    /\ last'.op = "UploadClaimsForItem"
    /\ ~last'.flag

NoRequests ==
    /\ last'.calls = <<>>
    /\ header' = header

\* C5 as stated: the first of two syncClaims(false) calls sends exactly
\* one claim-create request per annotated property and records its GUID,
\* the second sends nothing and leaves the header unchanged.
C5_TwoSyncsAsStated ==
    [][/\ FirstSync => OneCreatePerProperty
       /\ SecondSync => NoRequests]_vars

\* C5 amended: when, in addition, the value of every annotated field
\* encodes (a supported type, a well-formed item reference), the first
\* call returns no error, sends exactly one claim-create request per
\* annotated property and records its GUID; the second call sends nothing
\* and leaves the header unchanged.
C5_TwoSyncsWhenFieldsEncode ==
    [][/\ (FirstSync /\ AllEncode) =>
             /\ last'.err = NoErr
             /\ OneCreatePerProperty
       /\ SecondSync => NoRequests]_vars

\* the second of two syncClaims(false) calls has returned without a
\* request, after the first created the claims of both properties
C5_Witness ==
    /\ prev.op = "synced"
    /\ prev.creates = 2
    /\ last.op = "UploadClaimsForItem"
    /\ ~last.flag
    /\ last.shape = "ptr-struct"
    /\ last.err = NoErr
    /\ last.calls = <<>>
    /\ Cardinality(DOMAIN header.PropertyIDs) = 2

\* the annotated fields whose property has the claim GUID g on record
FieldsWithClaim(g) ==
    {i \in ResolvedFields :
        /\ PropertyOf(i) \in DOMAIN header.PropertyIDs
        /\ header.PropertyIDs[PropertyOf(i)] = g}

\* a step that is syncClaims(record, true) on a created record
Refresh ==
    /\ last'.op = "UploadClaimsForItem"
    /\ last'.flag
    /\ last'.shape = "ptr-struct"
    /\ header.ID # ""

\* the step sent no claim-create request for a property that had the GUID
\* g and left that GUID on record
NoCreateFor(g) ==
    \A i \in FieldsWithClaim(g) :
        /\ CreatesOf(last'.calls, PropertyOf(i)) = {}
        /\ PropertyOf(i) \in DOMAIN header'.PropertyIDs
        /\ header'.PropertyIDs[PropertyOf(i)] = g

\* C6 as stated: syncClaims(true) sends exactly one wbsetclaimvalue
\* request addressed to the GUID of a property that has one, no
\* claim-create request for it, and leaves the GUID unchanged.
C6_RefreshAsStated ==
    [][Refresh =>
          \A g \in GUIDs :
              FieldsWithClaim(g) # {} =>
                  /\ Cardinality(UpdatesTo(last'.calls, g)) = 1
                  /\ NoCreateFor(g)]_vars

\* C6 amended: syncClaims(true) sends no claim-create request for a
\* property that has a GUID and leaves the GUID unchanged; it sends at
\* most one wbsetclaimvalue request addressed to that GUID for each field
\* annotated with the property, and exactly one for each such field when
\* the call returns without error (a call that stops at an earlier field,
\* or cannot encode the value of the field, sends none).
C6_RefreshUpdatesOncePerField ==
    [][Refresh =>
          \A g \in GUIDs :
              FieldsWithClaim(g) # {} =>
                  /\ Cardinality(UpdatesTo(last'.calls, g))
                       <= Cardinality(FieldsWithClaim(g))
                  /\ last'.err = NoErr =>
                       Cardinality(UpdatesTo(last'.calls, g))
                         = Cardinality(FieldsWithClaim(g))
                  /\ NoCreateFor(g)]_vars

\* syncClaims(true) has returned without error: it sent one update to the
\* GUID on record for a property of the record, and no claim-create
C6_Witness ==
    /\ last.op = "UploadClaimsForItem"
    /\ last.flag
    /\ last.err = NoErr
    /\ \A i \in 1..Len(last.calls) : ~IsCreateClaim(last.calls[i])
    /\ \E g \in GUIDs :
         /\ Cardinality(FieldsWithClaim(g)) = 1
         /\ Cardinality(UpdatesTo(last.calls, g)) = 1

\* the annotated fields createEntity is to send, in field order
CreationFields ==
    SelectSeq(fields, LAMBDA f : /\ f.property # <<>>
                                 /\ ~HasOmitOnCreate(f.property))

\* C7 as stated: the claim list of a creation request holds exactly one
\* claim per annotated field without omitoncreate, in field order, and
\* none for a field with it; when every annotated field is omitoncreate
\* and the server reports no claims, the claim-ID map of the header is
\* empty after the creation.
C7_OmitOnCreateNeverSent ==
    [][last'.op = "CreateItemInstance" =>
          \A i \in EntityRequestsIn(last'.calls) :
              LET sent == last'.calls[i].claims
                  reported == last'.calls[i].resp.entity.claims
              IN /\ Len(sent) = Len(CreationFields)
                 /\ \A k \in 1..Len(sent) :
                      sent[k].property
                        = PropertyMap[CreationFields[k].property[1]]
                 /\ ( /\ CreationFields = <<>>
                      /\ last'.err = NoErr
                      /\ \A p \in DOMAIN reported : reported[p] = <<>> )
                      => header'.PropertyIDs = EmptyMap]_vars

\* C8 as stated: after a successful createEntity the Entity Reference is
\* the id of the entity in the response, the claim-ID map exists and holds
\* exactly the pairs property ID -> claim GUID of the properties the
\* response lists with exactly one claim.
C8_CreateRecordsResponse ==
    [][(last'.op = "CreateItemInstance" /\ last'.err = NoErr) =>
          \A i \in EntityRequestsIn(last'.calls) :
              LET entity == last'.calls[i].resp.entity
                  single == {p \in DOMAIN entity.claims :
                                Len(entity.claims[p]) = 1}
              IN /\ header'.ID = entity.id
                 /\ ~header'.nilMap
                 /\ header'.PropertyIDs
                      = [p \in single |-> entity.claims[p][1]]]_vars

\* C9 as stated: a createEntity that succeeds leaves a non-empty Entity
\* Reference, and the call that follows a successful createEntity (a
\* further createEntity, syncClaims, a label resolution) does not change
\* it.
C9_EntityReferenceImmutable ==
    [][/\ (last'.op = "CreateItemInstance" /\ last'.err = NoErr) =>
             header'.ID # ""
       /\ prev.op = "created" => header'.ID = header.ID]_vars

\* C10 as stated: a createEntity that returns an error leaves the Entity
\* Reference and the claim-ID map as they were; of the calls that return
\* an error only syncClaims changes the header.
C10_FailedCreateLeavesHeader ==
    [][(last'.err # NoErr /\ last'.op # "UploadClaimsForItem") =>
          /\ header'.ID = header.ID
          /\ header'.PropertyIDs = header.PropertyIDs]_vars

\* ---------------------------------------------------------------------
\* Claims about the errors of createEntity and of the label resolver
\* ---------------------------------------------------------------------

\* the properties a creation response lists with more than one claim
ManyClaims(resp) ==
    IF resp.kind # "json" \/ resp.entity.nil THEN {}
    ELSE {p \in DOMAIN resp.entity.claims : Len(resp.entity.claims[p]) > 1}

\* C11: a createEntity whose creation response lists more than one claim
\* for a property returns an error; when the response is otherwise a
\* success, the error names one of the properties listed with several.
C11_ManyClaimsIsAnError ==
    [][last'.op = "CreateItemInstance" =>
          \A i \in EntityRequestsIn(last'.calls) :
              LET resp == last'.calls[i].resp IN
                ManyClaims(resp) # {} =>
                    /\ last'.err # NoErr
                    /\ (~resp.error /\ resp.success = 1) =>
                         /\ last'.err.kind = "too-many-claims"
                         /\ last'.err.name \in ManyClaims(resp)]_vars

\* createEntity has returned the error of a response that lists two
\* claims for one property and one claim for the other
C11_Witness ==
    /\ last.op = "CreateItemInstance"
    /\ last.err.kind = "too-many-claims"
    /\ \E i \in EntityRequestsIn(last.calls) :
         /\ Cardinality(ManyClaims(last.calls[i].resp)) = 1
         /\ Cardinality(DOMAIN last.calls[i].resp.entity.claims) = 2

\* the search requests among calls
SearchesIn(calls) ==
    {i \in 1..Len(calls) :
        calls[i].action = "query" /\ "list" \in DOMAIN calls[i]}

\* the requests that belong to the resolution the search at i starts:
\* those sent after it and before the next search
FollowUps(calls, i) ==
    {j \in (i + 1)..Len(calls) :
        \A k \in (i + 1)..j : k \notin SearchesIn(calls)}

EntityCreationsAfter(calls, i) ==
    {j \in FollowUps(calls, i) : calls[j].action = "wbeditentity"}

\* a title of the form <Kind>:<ID>, and its ID
WellFormed(title) == Len(title) = 3 /\ title[2] = ":"

IDPart(title) == title[3]

\* the step left the entry of label in the Label Map of its kind as it was
EntryUnchanged(kind, label) ==
    IF kind = "property"
    THEN /\ label \in DOMAIN PropertyMap' <=> label \in DOMAIN PropertyMap
         /\ label \in DOMAIN PropertyMap =>
              PropertyMap'[label] = PropertyMap[label]
    ELSE /\ label \in DOMAIN ItemMap' <=> label \in DOMAIN ItemMap
         /\ label \in DOMAIN ItemMap => ItemMap'[label] = ItemMap[label]

\* the step stored id under label in the Label Map of its kind
EntryIs(kind, label, id) ==
    IF kind = "property"
    THEN label \in DOMAIN PropertyMap' /\ PropertyMap'[label] = id
    ELSE label \in DOMAIN ItemMap' /\ ItemMap'[label] = id

\* C12: a resolution with createIfMissing=false whose search yields no
\* exact match ends the call with a not-found error that names the label;
\* no request follows the search, the entry of the label in the Label Map
\* is as before, and when the search is the first request of the call the
\* whole Label Map is as before.
C12_NotFoundWithoutCreate ==
    [][\A i \in SearchesIn(last'.calls) :
          LET c == last'.calls[i] IN
            (~last'.flag /\ ~c.failed /\ c.titles = <<>>) =>
                /\ last'.err = Err("not-found", c.wbssearch)
                /\ i = Len(last'.calls)
                /\ EntryUnchanged(c.wbstype, c.wbssearch)
                /\ i = 1 => /\ PropertyMap' = PropertyMap
                            /\ ItemMap' = ItemMap]_vars

\* the item tag of a field was not found although the search returned a
\* close match, after the property tag of the field was resolved
C12_Witness ==
    /\ last.op = "MapPropertyAndItemConfiguration"
    /\ ~last.flag
    /\ last.err = Err("not-found", "city")
    /\ Len(last.calls) = 2
    /\ last.calls[2].near > 0
    /\ "name" \in DOMAIN PropertyMap
    /\ "city" \notin DOMAIN ItemMap

\* C13: only the exact matches of a search count, the close matches are
\* dropped whatever their number: when the search yields exactly one exact
\* match (titled <Kind>:<ID>), the ID of its title is stored under the
\* label in the Label Map, no creation request follows, and the
\* resolution does not fail, for either value of createIfMissing.
C13_OneExactMatchResolves ==
    [][\A i \in SearchesIn(last'.calls) :
          LET c == last'.calls[i] IN
            (~c.failed /\ Len(c.titles) = 1 /\ WellFormed(c.titles[1])) =>
                /\ EntryIs(c.wbstype, c.wbssearch, IDPart(c.titles[1]))
                /\ FollowUps(last'.calls, i) = {}
                /\ i = Len(last'.calls) => last'.err = NoErr]_vars

\* an item label was resolved to the ID of the one exact match of a
\* search that also returned a close match, with createIfMissing=true
C13_Witness ==
    /\ last.op = "MapItemConfigurationByLabel"
    /\ last.flag
    /\ last.err = NoErr
    /\ Len(last.calls) = 1
    /\ last.calls[1].titles = << <<"item", ":", "Q2">> >>
    /\ last.calls[1].near > 0
    /\ ItemMap["city"] = "Q2"

\* C14: a resolution whose search yields more than one exact match fails,
\* for either value of createIfMissing: the call returns an error (the
\* ambiguity error that names the label when the titles are well formed),
\* no request follows the search and the entry of the label in the Label
\* Map is as before.
C14_SeveralExactMatchesFail ==
    [][\A i \in SearchesIn(last'.calls) :
          LET c == last'.calls[i] IN
            (~c.failed /\ Len(c.titles) > 1) =>
                /\ last'.err # NoErr
                /\ (\A k \in 1..Len(c.titles) : WellFormed(c.titles[k])) =>
                       last'.err = Err("ambiguous", c.wbssearch)
                /\ i = Len(last'.calls)
                /\ EntryUnchanged(c.wbstype, c.wbssearch)]_vars

\* a property label with two exact matches of different IDs was refused
\* with createIfMissing=true
C14_Witness ==
    /\ last.op = "MapPropertyAndItemConfiguration"
    /\ last.flag
    /\ last.err = Err("ambiguous", "test")
    /\ \E i \in SearchesIn(last.calls) :
         /\ i = Len(last.calls)
         /\ Len(last.calls[i].titles) = 2
         /\ last.calls[i].titles[1] # last.calls[i].titles[2]
    /\ "test" \notin DOMAIN PropertyMap

\* the creation request at j was answered with a created entity
Created(call) ==
    /\ call.resp.kind = "json"
    /\ ~call.resp.error
    /\ call.resp.success = 1
    /\ ~call.resp.entity.nil

\* the resolution the search at i starts asked for the edit token and
\* did not get one
TokenRefusedAfter(calls, i) ==
    \E j \in FollowUps(calls, i) :
        /\ IsTokenRequest(calls[j])
        /\ (calls[j].resp.kind # "json" \/ calls[j].resp.csrftoken = Nil)

\* the fields tagged with the property label have a type that maps to a
\* datatype of the server
TypeSupported(label) ==
    \A k \in 1..Len(fields) :
        (fields[k].property # <<>> /\ fields[k].property[1] = label) =>
            goTypeToWikibaseType(fields[k]).err = ""

\* the creation requests of the resolution are of the kind and carry the
\* label of the search at i
CreationsMatch(calls, i) ==
    \A j \in EntityCreationsAfter(calls, i) :
        /\ calls[j].new = calls[i].wbstype
        /\ calls[j].label = calls[i].wbssearch

\* a search of a resolution with createIfMissing=true and no exact match
CreateIfMissing(i) ==
    /\ last'.flag
    /\ ~last'.calls[i].failed
    /\ last'.calls[i].titles = <<>>

ClaimRequestsIn(calls) ==
    {i \in 1..Len(calls) : IsCreateClaim(calls[i]) \/ IsUpdateClaim(calls[i])}

\* C16: syncClaims on a record whose Entity Reference is empty returns an
\* error, sends no request and leaves the header as it is, the claim-ID
\* map still nil if it was; and no step sends a claim request for a record
\* whose Entity Reference is empty.
C16_SyncNeedsEntityReference ==
    [][/\ (last'.op = "UploadClaimsForItem" /\ header.ID = "") =>
             /\ last'.err # NoErr
             /\ last'.calls = <<>>
             /\ header' = header
       /\ ClaimRequestsIn(last'.calls) # {} => header.ID # ""]_vars

\* syncClaims was refused on a pointer to a record that was never
\* created, with its labels resolved; the claim-ID map is still nil
C16_Witness ==
    /\ last.op = "UploadClaimsForItem"
    /\ last.shape = "ptr-struct"
    /\ last.err = Err("item-id-nil", "")
    /\ last.calls = <<>>
    /\ header = ZeroHeader
    /\ AllResolved
    /\ Len(fields) = 2

\* the structural preconditions of a call that fail: the empty display
\* label of a creation, an argument that is no pointer to a struct with
\* the header
StructuralFailure(call) ==
    \/ call.op = "CreateItemInstance" /\ call.label = ""
    \/ /\ call.op \in {"CreateItemInstance", "UploadClaimsForItem"}
       /\ call.shape # "ptr-struct"

\* C17: CreateItemInstance and UploadClaimsForItem called with an empty
\* display label (creation), a non-pointer, a nil pointer, a pointer to a
\* non-struct or a struct without the header return an error that is no
\* panic, issue no network call, not even the token fetch, and change
\* neither the record nor the Label Map
C17_StructuralFailureIsHarmless ==
    [][StructuralFailure(last') =>
         /\ last'.err # NoErr
         /\ last'.err.kind # "panic"
         /\ last'.calls = <<>>
         /\ fetchCount' = fetchCount
         /\ editToken' = editToken
         /\ header' = header
         /\ fields' = fields
         /\ PropertyMap' = PropertyMap
         /\ ItemMap' = ItemMap]_vars

\* a nil pointer was refused by a creation, on a client that holds a
\* resolved property, and a synchronisation refused a struct passed by
\* value for a record that has its entity
C17_Witness ==
    \/ /\ last.op = "CreateItemInstance"
       /\ last.label # ""
       /\ last.shape = "ptr-nil"
       /\ last.err = Err("not-struct", "")
       /\ DOMAIN PropertyMap # {}
    \/ /\ last.op = "UploadClaimsForItem"
       /\ last.shape = "struct"
       /\ last.err = Err("not-pointer", "")
       /\ header.ID # ""

\* the fields of the record that a creation encodes and cannot
CreationFailures ==
    {i \in 1..Len(fields) :
        /\ fields[i].property # <<>>
        /\ ~HasOmitOnCreate(fields[i].property)
        /\ getItemCreateClaimValue(fields[i], fields[i].val).err # ""}

\* C18: when a field without omitoncreate cannot be encoded, a
\* CreateItemInstance with a display label and a pointer to the record
\* returns an error without a token fetch and without a creation request,
\* so no part of the claim list is sent, and the header stays as it was
C18_EncodingFailureAborts ==
    [][(/\ last'.op = "CreateItemInstance"
        /\ last'.label # ""
        /\ last'.shape = "ptr-struct"
        /\ CreationFailures # {})
       => /\ last'.err # NoErr
          /\ last'.calls = <<>>
          /\ editToken' = editToken
          /\ header' = header]_vars

\* the second field of a record failed to encode after the first had
\* encoded, both labels resolved
C18_Witness ==
    /\ last.op = "CreateItemInstance"
    /\ last.err.kind = "marshal"
    /\ 2 \in CreationFailures
    /\ 1 \notin CreationFailures
    /\ AllResolved

\* the snak state that goes with an encoded field
SnakOf(encoded) == IF encoded.nil THEN "novalue" ELSE "value"

\* the claim list of a creation request has, for every field without
\* omitoncreate and in field order, a claim of its property whose snak is
\* novalue with a nil DataValue (json.Marshal writes it as null) when the
\* field encodes to no value, and value with the payload when it has one
CreationSnaks(request) ==
    /\ Len(request.claims) = Len(CreationFields)
    /\ \A j \in 1..Len(CreationFields) :
         LET f == CreationFields[j]
             c == getItemCreateClaimValue(f, f.val)
             sent == request.claims[j]
         IN /\ sent.property = PropertyMap[f.property[1]]
            /\ sent.snaktype = SnakOf(c)
            /\ sent.nodatavalue = c.nil
            /\ sent.value = c.v
            /\ c.nil <=> c.v = NoClaimValue

\* a claim-create request carries the encoding of a field of its property
SentForAField(request) ==
    \E i \in ResolvedFields :
        LET d == getDataForClaim(fields[i], fields[i].val) IN
          /\ PropertyOf(i) = request.property
          /\ d.err = ""
          /\ request.snaktype = SnakOf(d)
          /\ request.value = d.v

\* the fields that encode to no value and are the first of their property,
\* which has no claim GUID in the header
NoValueFieldsToCreate ==
    {i \in ResolvedFields :
        /\ getDataForClaim(fields[i], fields[i].val).err = ""
        /\ getDataForClaim(fields[i], fields[i].val).nil
        /\ ~HaveExistingClaim(header.PropertyIDs, PropertyOf(i))
        /\ \A j \in ResolvedFields : j < i => PropertyOf(j) # PropertyOf(i)}

\* C19: a field that encodes to no value is uploaded all the same: the
\* claim list of a creation request holds a claim of its property with
\* snaktype novalue and no datavalue, a synchronisation that succeeds has
\* sent a claim-create request with snaktype novalue and no value argument
\* for it, a field with a payload is sent with snaktype value and the
\* payload, and every claim request has snaktype novalue exactly when it
\* has no value argument
C19_NoValueIsUploaded ==
    [][/\ last'.op = "CreateItemInstance" =>
            \A k \in EntityRequestsIn(last'.calls) :
                CreationSnaks(last'.calls[k])
       /\ last'.op = "UploadClaimsForItem" =>
            /\ \A k \in ClaimRequestsIn(last'.calls) :
                 /\ last'.calls[k].snaktype \in {"novalue", "value"}
                 /\ last'.calls[k].snaktype = "novalue"
                      <=> last'.calls[k].value = NoClaimValue
                 /\ IsCreateClaim(last'.calls[k]) =>
                      SentForAField(last'.calls[k])
            /\ last'.err = NoErr =>
                 \A i \in NoValueFieldsToCreate :
                    \E k \in CreatesOf(last'.calls, PropertyOf(i)) :
                        /\ last'.calls[k].snaktype = "novalue"
                        /\ last'.calls[k].value = NoClaimValue]_vars

\* a synchronisation sent a claim-create request with snaktype novalue for
\* the nil pointer and one for the empty string of a record, and both
\* claims are on record
C19_Witness ==
    /\ last.op = "UploadClaimsForItem"
    /\ last.err = NoErr
    /\ Len(fields) = 2
    /\ fields[1].ptr /\ fields[1].val.nil
    /\ fields[2].base = "string" /\ fields[2].val.s = <<>>
    /\ \A i \in {1, 2} :
          /\ i \in ResolvedFields
          /\ \E k \in CreatesOf(last.calls, PropertyOf(i)) :
                last.calls[k].snaktype = "novalue"
          /\ HaveExistingClaim(header.PropertyIDs, PropertyOf(i))

\* ---------------------------------------------------------------------
\* Claims about a synchronisation that fails part of the way
\* ---------------------------------------------------------------------

\* the request was refused: the transport failed, the body did not decode,
\* it carried an error, or success was not 1
Refused(request) ==
    IF IsTokenRequest(request) THEN TokenOutcome(request.resp).err # ""
    ELSE ClaimResponseErr(request.resp, "") # NoErr

\* the last claim-create request of calls for property p that was granted
LastGranted(calls, p) ==
    LET granted == {k \in CreatesOf(calls, p) : ~Refused(calls[k])}
    IN IF granted = {} THEN 0
       ELSE CHOOSE k \in granted : \A j \in granted : j <= k

\* C20: UploadClaimsForItem stops at the first request that is refused:
\* the refused request is the last of the call and the call returns an
\* error; the GUID of every claim-create request granted before it is in
\* the claim-ID map of the header afterwards, and the GUIDs that were
\* there before stay; and a call with allow_refresh=false sends no update
\* request and claim-create requests only for properties that had no GUID
\* when it began
C20_FailFastAndResumable ==
    [][last'.op = "UploadClaimsForItem" =>
         /\ \A k \in 1..Len(last'.calls) :
              Refused(last'.calls[k]) =>
                 /\ k = Len(last'.calls)
                 /\ last'.err # NoErr
         /\ \A p \in PIDs :
              /\ LastGranted(last'.calls, p) # 0 =>
                   /\ p \in DOMAIN header'.PropertyIDs
                   /\ header'.PropertyIDs[p]
                        = last'.calls[LastGranted(last'.calls, p)].resp.id
              /\ HaveExistingClaim(header.PropertyIDs, p) =>
                   /\ p \in DOMAIN header'.PropertyIDs
                   /\ header'.PropertyIDs[p] = header.PropertyIDs[p]
         /\ ~last'.flag =>
              \A k \in ClaimRequestsIn(last'.calls) :
                 /\ IsCreateClaim(last'.calls[k])
                 /\ ~HaveExistingClaim(header.PropertyIDs,
                                       last'.calls[k].property)]_vars

\* a synchronisation of a record of two fields had stopped at the second
\* claim-create request with the first claim created, and the call after
\* it, without refresh, sent one claim-create request, for the property of
\* the second field, and succeeded
C20_Witness ==
    /\ prev.op = "stopped"
    /\ prev.creates = 1
    /\ last.op = "UploadClaimsForItem"
    /\ ~last.flag
    /\ last.err = NoErr
    /\ Len(fields) = 2
    /\ ResolvedFields = {1, 2}
    /\ PropertyOf(1) # PropertyOf(2)
    /\ CreatesOf(last.calls, PropertyOf(1)) = {}
    /\ Cardinality(CreatesOf(last.calls, PropertyOf(2))) = 1
    /\ \A i \in {1, 2} : HaveExistingClaim(header.PropertyIDs, PropertyOf(i))

\* ---------------------------------------------------------------------
\* Claims about what the session keeps: claim GUIDs and the Label Map
\* ---------------------------------------------------------------------

\* C21 as stated: a property that has a claim GUID in the claim-ID map of
\* the record keeps one through every step: no step removes the entry or
\* empties it, and UploadClaimsForItem sends no claim-create request for
\* the property
C21_ClaimPresentIsForward ==
    [][\A p \in PIDs :
         HaveExistingClaim(header.PropertyIDs, p) =>
            /\ HaveExistingClaim(header'.PropertyIDs, p)
            /\ last'.op = "UploadClaimsForItem" =>
                  CreatesOf(last'.calls, p) = {}]_vars

\* C22: the two maps of the client are empty when it is created, and
\* every step, whether its call succeeds or fails, keeps every key of both
C22_LabelMapOnlyGrows ==
    /\ PropertyMap = EmptyMap
    /\ ItemMap = EmptyMap
    /\ [][/\ DOMAIN PropertyMap \subseteq DOMAIN PropertyMap'
          /\ DOMAIN ItemMap \subseteq DOMAIN ItemMap']_vars

\* a resolution has failed on a client that holds a property label and an
\* item label from earlier calls
C22_Witness ==
    /\ last.op \in {"MapPropertyAndItemConfiguration",
                    "MapItemConfigurationByLabel"}
    /\ last.err # NoErr
    /\ last.calls # <<>>
    /\ DOMAIN PropertyMap # {}
    /\ DOMAIN ItemMap # {}

\* ---------------------------------------------------------------------
\* Claims about the responses of the server
\* ---------------------------------------------------------------------

\* the requests that change the wiki
Mutating(call) ==
    call.action \in {"wbeditentity", "wbcreateclaim", "wbsetclaimvalue"}

IsItemCreate(call) == call.action = "wbeditentity" /\ call.new = "item"

IsPropertyCreate(call) ==
    call.action = "wbeditentity" /\ call.new = "property"

\* the response decoded and has an error object
CarriesError(call) == call.resp.kind = "json" /\ call.resp.error

\* the step left the entry of property p in the claim-ID map as it was
ClaimEntryUnchanged(p) ==
    /\ p \in DOMAIN header'.PropertyIDs <=> p \in DOMAIN header.PropertyIDs
    /\ p \in DOMAIN header.PropertyIDs =>
         header'.PropertyIDs[p] = header.PropertyIDs[p]

\* C23: when the response to an entity creation, a property creation, a
\* claim creation or a claim update has an error object, whatever else it
\* carries, the call returns an error after that request and records
\* nothing of it: the header is as before after CreateItemInstance, the
\* entry of the label in the Label Map is as before after a resolution,
\* the Entity Reference is as before after UploadClaimsForItem, and so is
\* the claim-ID map entry of every property for which the call had no
\* claim-create request granted
C23_ErrorObjectTakesPrecedence ==
    [][\A k \in 1..Len(last'.calls) :
         LET c == last'.calls[k] IN
         (Mutating(c) /\ CarriesError(c)) =>
            /\ last'.err # NoErr
            /\ last'.err.kind # "panic"
            /\ k = Len(last'.calls)
            /\ last'.op = "CreateItemInstance" => header' = header
            /\ (IsItemCreate(c) /\ last'.op # "CreateItemInstance") =>
                  EntryUnchanged("item", c.label)
            /\ IsPropertyCreate(c) => EntryUnchanged("property", c.label)
            /\ last'.op = "UploadClaimsForItem" =>
                  /\ header'.ID = header.ID
                  /\ \A p \in PIDs :
                        LastGranted(last'.calls, p) = 0 =>
                            ClaimEntryUnchanged(p)]_vars

\* a claim-create request was answered with an error object next to
\* success=1 and a claim id, and the call recorded no GUID
C23_Witness ==
    /\ last.op = "UploadClaimsForItem"
    /\ last.calls # <<>>
    /\ LET c == last.calls[Len(last.calls)] IN
         /\ IsCreateClaim(c)
         /\ CarriesError(c)
         /\ c.resp.success = 1
         /\ c.resp.id # ""
         /\ ~HaveExistingClaim(header.PropertyIDs, c.property)
    /\ last.err.kind = "api"

\* the response decoded, has no error object, and is no well-formed
\* success: success is not 1 or the entity is missing
MalformedSuccess(call) ==
    /\ call.resp.kind = "json"
    /\ ~call.resp.error
    /\ call.resp.success # 1 \/ call.resp.entity.nil

\* C24: CreateItemInstance whose creation request is answered without an
\* error object but with success other than 1, or without an entity,
\* returns an error that is no panic and leaves the Entity Reference, and
\* the rest of the header, as it was
C24_MalformedSuccessIsAnError ==
    [][last'.op = "CreateItemInstance" =>
         \A k \in EntityRequestsIn(last'.calls) :
            MalformedSuccess(last'.calls[k]) =>
               /\ last'.err # NoErr
               /\ last'.err.kind # "panic"
               /\ header'.ID = header.ID
               /\ header' = header]_vars

\* a creation on a record without Entity Reference was answered with
\* success=1 and no entity, and the header has no Entity Reference
C24_Witness ==
    /\ last.op = "CreateItemInstance"
    /\ \E k \in EntityRequestsIn(last.calls) :
          /\ MalformedSuccess(last.calls[k])
          /\ last.calls[k].resp.success = 1
          /\ last.calls[k].resp.entity.nil
    /\ last.err.kind = "entity-nil"
    /\ header.ID = ""

\* the request at k of calls carries a token that the call had: the one
\* cached when the call began, or the one a token request before k got
TokenObtainedBefore(calls, k) ==
    IF editToken # Nil THEN calls[k].token = editToken
    ELSE \E j \in 1..(k - 1) :
            /\ IsTokenRequest(calls[j])
            /\ ~Refused(calls[j])
            /\ calls[j].resp.csrftoken = calls[k].token

OmittedFields ==
    {i \in 1..Len(fields) :
        fields[i].property # <<>> /\ HasOmitOnCreate(fields[i].property)}

\* a step that is UploadClaimsForItem(&record, false) called next after a
\* CreateItemInstance that succeeded
SyncAfterCreate ==
    /\ last'.op = "UploadClaimsForItem"
    /\ ~last'.flag
    /\ last'.shape = "ptr-struct"
    /\ prev.op = "created"

\* the omitoncreate field i is the only field of its property, and the
\* property has no claim GUID on record
StillToCreate(i) ==
    /\ i \in OmittedFields
    /\ i \in ResolvedFields
    /\ ~HaveExistingClaim(header.PropertyIDs, PropertyOf(i))
    /\ \A j \in ResolvedFields : j # i => PropertyOf(j) # PropertyOf(i)

MaxTextLen == 4

\* characters of the texts: white space, a letter, the prefixes of item
\* and property IDs, a digit, a sign
CodecAlphabet == {" ", "\n", "a", "Q", "P", "4", "-"}

Texts == UNION {[1..n -> CodecAlphabet] : n \in 0..MaxTextLen}

\* the fields the codec is given: every text as a string and as an item
\* reference, ints, a time that marshals and one that does not, a type
\* the codec does not know, each also behind a pointer, and nil pointers
CodecFields ==
    {Field(<<"test">>, "", ptr, base, TextVal(s)) :
        ptr \in BOOLEAN, base \in {"string", "wikibase.ItemPropertyType"},
        s \in Texts}
    \cup {Field(<<"test">>, "", ptr, "int", IntVal(n)) :
            ptr \in BOOLEAN, n \in {0 - 7, 0, 42}}
    \cup {Field(<<"test">>, "", ptr, "time.Time",
                TimeVal(y, <<"2018-09-20T12:13:14Z">>)) :
            ptr \in BOOLEAN, y \in {2018, 10000}}
    \cup {Field(<<"test">>, "", ptr, "float64", IntVal(1)) :
            ptr \in BOOLEAN}
    \cup {Field(<<"test">>, "", TRUE, base, NilVal) : base \in BaseTypes}

CodecInit ==
    /\ editToken = Nil
    /\ lockW = NoThread
    /\ lockR = {}
    /\ pc = [t \in Threads |-> "start"]
    /\ initVal = [t \in Threads |-> Nil]
    /\ ret = [t \in Threads |-> [tok |-> "", err |-> ""]]
    /\ fetches = [t \in Threads |-> 0]
    /\ fetchCount = 0
    /\ firstFetch = ""
    /\ PropertyMap = EmptyMap
    /\ ItemMap = EmptyMap
    /\ \E f \in CodecFields : fields = <<f>>
    /\ header = ZeroHeader
    /\ last = NoOperation
    /\ prev = NoSummary

\* what a call of a codec function returned
Returned(function, out) == [op |-> function, out |-> out]

CallStringClaimToAPIData ==
    /\ last = NoOperation
    /\ fields[1].base = "string"
    /\ ~fields[1].val.nil
    /\ last' = Returned("stringClaimToAPIData",
                        stringClaimToAPIData(fields[1].val.s))
    /\ UNCHANGED <<editToken, PropertyMap, ItemMap, fields, header, prev>>
    /\ UNCHANGED threadVars

CallItemClaimToAPIData ==
    /\ last = NoOperation
    /\ fields[1].base = "wikibase.ItemPropertyType"
    /\ ~fields[1].val.nil
    /\ last' = Returned("itemClaimToAPIData",
                        itemClaimToAPIData(fields[1].val.s))
    /\ UNCHANGED <<editToken, PropertyMap, ItemMap, fields, header, prev>>
    /\ UNCHANGED threadVars

CallGetDataForClaim ==
    /\ last = NoOperation
    /\ last' = Returned("getDataForClaim",
                        getDataForClaim(fields[1], fields[1].val))
    /\ UNCHANGED <<editToken, PropertyMap, ItemMap, fields, header, prev>>
    /\ UNCHANGED threadVars

CallGetItemCreateClaimValue ==
    /\ last = NoOperation
    /\ last' = Returned("getItemCreateClaimValue",
                        getItemCreateClaimValue(fields[1], fields[1].val))
    /\ UNCHANGED <<editToken, PropertyMap, ItemMap, fields, header, prev>>
    /\ UNCHANGED threadVars

CallGoTypeToWikibaseType ==
    /\ last = NoOperation
    /\ last' = Returned("goTypeToWikibaseType",
                        goTypeToWikibaseType(fields[1]))
    /\ UNCHANGED <<editToken, PropertyMap, ItemMap, fields, header, prev>>
    /\ UNCHANGED threadVars

CodecNext ==
    \/ CallStringClaimToAPIData
    \/ CallItemClaimToAPIData
    \/ CallGetDataForClaim
    \/ CallGetItemCreateClaimValue
    \/ CallGoTypeToWikibaseType

SpecCodec == CodecInit /\ [][CodecNext]_vars

\* ---------------------------------------------------------------------
\* Claims about the codec
\* ---------------------------------------------------------------------

NonSpace(s) == SelectSeq(s, LAMBDA c : c \notin WhiteSpace)

\* the places of s where a word ends and another word follows later
WordBreaks(s) ==
    {i \in 1..(Len(s) - 1) :
        /\ s[i] \notin WhiteSpace
        /\ s[i + 1] \in WhiteSpace
        /\ \E j \in (i + 1)..Len(s) : s[j] \notin WhiteSpace}

\* single spaces between words and nothing else of white space
IsNormalised(s) ==
    /\ \A i \in 1..Len(s) : s[i] \in WhiteSpace => s[i] = " "
    /\ s # <<>> => s[1] # " " /\ s[Len(s)] # " "
    /\ \A i \in 1..(Len(s) - 1) : ~(s[i] = " " /\ s[i + 1] = " ")

\* out is text with every run of white space turned into one space and
\* the white space at both ends removed
IsNormalisationOf(out, text) ==
    /\ IsNormalised(out)
    /\ NonSpace(out) = NonSpace(text)
    /\ Cardinality({i \in 1..Len(out) : out[i] = " "})
         = Cardinality(WordBreaks(text))

\* C27: stringClaimToAPIData returns no error; for a text that is not
\* empty it returns a payload, the text with every run of white space
\* replaced by one space and none left at the ends; for the empty text it
\* returns no value and no payload; and a text that is normalised already
\* comes back as it is
C27_StringCodecNormalises ==
    last.op = "stringClaimToAPIData" =>
        LET text == fields[1].val.s
            out == last.out
        IN /\ out.err = ""
           /\ out.nil <=> text = <<>>
           /\ out.nil => out.v = NoClaimValue
           /\ ~out.nil =>
                /\ out.v.kind = "string"
                /\ IsNormalisationOf(out.v.s, text)
                /\ IsNormalised(text) => out.v.s = text
                /\ out.v.s # <<>> => stringClaimToAPIData(out.v.s) = out

\* a text with a run of two kinds of white space inside came back with
\* one space inside
C27_Witness ==
    /\ last.op = "stringClaimToAPIData"
    /\ fields[1].val.s = <<"a", "\n", " ", "a">>
    /\ last.out.v.s = <<"a", " ", "a">>

\* the letter Q followed by one or more decimal digits
IsQNumber(s) ==
    /\ Len(s) >= 2
    /\ s[1] = "Q"
    /\ \A i \in 2..Len(s) : s[i] \in DigitSet

\* C28 as stated: itemClaimToAPIData succeeds exactly for the letter Q
\* followed by a decimal non-negative integer N, and then returns
\* {entity-type: item, numeric-id: N}; every other text, one with a signed
\* remainder included, is an error
C28_ItemCodecAcceptsQNumbers ==
    last.op = "itemClaimToAPIData" =>
        LET text == fields[1].val.s
            out == last.out
        IN /\ out.err = "" <=> IsQNumber(text)
           /\ out.err = "" =>
                out.v = [kind |-> "item", s |-> <<"item">>,
                         n |-> DigitsToNat(Tail(text), 0)]

\* the field is a string, an int, a time.Time or an ItemPropertyType, or
\* a pointer to one
Supported(f) ==
    f.base \in {"string", "int", "time.Time", "wikibase.ItemPropertyType"}

\* C29 as stated: getDataForClaim and getItemCreateClaimValue return the
\* unsupported-type error for a field of any other type, whatever its
\* value, a nil pointer included; and a nil pointer to one of the four
\* supported types encodes to no value without error
C29_UnsupportedTypeIsAnError ==
    last.op \in {"getDataForClaim", "getItemCreateClaimValue"} =>
        LET f == fields[1]
            out == last.out
        IN /\ ~Supported(f) => out.err = "unsupported-type"
           /\ (Supported(f) /\ f.ptr /\ f.val.nil) =>
                 out.err = "" /\ out.nil

\* ---------------------------------------------------------------------
\* Claims about the argument of the type registration
\* ---------------------------------------------------------------------

\* C30 as stated: MapPropertyAndItemConfiguration never panics; given a
\* pointer to the record it resolves the tags of the fields, so that a
\* record with a tag has a search sent for it; given the record by value,
\* or a pointer to something that is no struct, it returns an error before
\* any request and leaves the Label Map as it was
C30_RegistrationTakesPointer ==
    [][last'.op = "MapPropertyAndItemConfiguration" =>
         /\ last'.err.kind # "panic"
         /\ (/\ last'.shape = "ptr-struct"
             /\ \E i \in 1..Len(fields) :
                   fields[i].property # <<>> \/ fields[i].item # "")
              => SearchesIn(last'.calls) # {}
         /\ last'.shape \in {"struct", "ptr-other"} =>
               /\ last'.err # NoErr
               /\ last'.calls = <<>>
               /\ PropertyMap' = PropertyMap
               /\ ItemMap' = ItemMap]_vars

\* ---------------------------------------------------------------------
\* Claims about the registration of properties
\* ---------------------------------------------------------------------

\* the datatype a property of a field of Go type base is registered with,
\* "" when there is none
DatatypeOf(base) ==
    CASE base = "string" -> "string"
      [] base = "int" -> "quantity"
      [] base = "time.Time" -> "time"
      [] base = "wikibase.ItemPropertyType" -> "wikibase-item"
      [] OTHER -> ""

\* the fields of the record tagged with the property label
FieldsTagged(label) ==
    {i \in 1..Len(fields) :
        fields[i].property # <<>> /\ fields[i].property[1] = label}

\* C31: a property-creation request carries the datatype of the field its
\* label tags: string for a string, quantity for an int, time for a
\* time.Time, wikibase-item for an ItemPropertyType, the same behind a
\* pointer; and for a field of another type no property-creation request
\* is sent, the resolution that would have created the property returning
\* an error
C31_DatatypeOfRegisteredProperty ==
    [][/\ \A k \in 1..Len(last'.calls) :
            IsPropertyCreate(last'.calls[k]) =>
               /\ FieldsTagged(last'.calls[k].label) # {}
               /\ \A i \in FieldsTagged(last'.calls[k].label) :
                     /\ DatatypeOf(fields[i].base) # ""
                     /\ last'.calls[k].datatype = DatatypeOf(fields[i].base)
       /\ \A i \in SearchesIn(last'.calls) :
            LET c == last'.calls[i] IN
            (/\ CreateIfMissing(i)
             /\ c.wbstype = "property"
             /\ \E j \in FieldsTagged(c.wbssearch) :
                   DatatypeOf(fields[j].base) = "")
            => /\ last'.err # NoErr
               /\ i = Len(last'.calls)]_vars

\* the property of a pointer to a time.Time was registered as a time
C31_Witness ==
    /\ last.op = "MapPropertyAndItemConfiguration"
    /\ last.err = NoErr
    /\ fields[1].ptr
    /\ fields[1].base = "time.Time"
    /\ \E k \in 1..Len(last.calls) :
          /\ IsPropertyCreate(last.calls[k])
          /\ last.calls[k].label = "test"
          /\ last.calls[k].datatype = "time"
    /\ "test" \in DOMAIN PropertyMap

\* the property creation was answered with success=1 and no entity
SuccessWithoutEntity(call) ==
    /\ IsPropertyCreate(call)
    /\ call.resp.kind = "json"
    /\ ~call.resp.error
    /\ call.resp.success = 1
    /\ call.resp.entity.nil

\* C32: a resolution whose property creation is answered with success=1
\* and no entity returns an error that is no panic, and the label's entry
\* of the Label Map is as it was
C32_PropertyCreationWithoutEntityIsAnError ==
    [][\A k \in 1..Len(last'.calls) :
          SuccessWithoutEntity(last'.calls[k]) =>
             /\ last'.err # NoErr
             /\ last'.err.kind # "panic"
             /\ EntryUnchanged("property", last'.calls[k].label)]_vars

\* ---------------------------------------------------------------------
\* Claims about the claims a record gets
\* ---------------------------------------------------------------------

\* the property IDs the creation request of the record carries claims for
SentOnCreation ==
    {PropertyMap[CreationFields[j].property[1]] :
        j \in {i \in 1..Len(CreationFields) :
                 CreationFields[i].property[1] \in DOMAIN PropertyMap}}

\* C33: a creation request carries at most one claim per property ID, and
\* a successful sync that follows a successful creation issues no
\* claim-create for a property ID the creation request carried, and at
\* most one per property ID
C33_OneClaimPerProperty ==
    [][/\ last'.op = "CreateItemInstance" =>
            \A k \in EntityRequestsIn(last'.calls) :
               \A i, j \in 1..Len(last'.calls[k].claims) :
                  last'.calls[k].claims[i].property
                     = last'.calls[k].claims[j].property => i = j
       /\ (/\ last'.op = "UploadClaimsForItem"
           /\ last'.err = NoErr
           /\ prev.op = "created")
          => \A k \in 1..Len(last'.calls) :
                IsCreateClaim(last'.calls[k]) =>
                   /\ last'.calls[k].property \notin SentOnCreation
                   /\ CreatesOf(last'.calls, last'.calls[k].property)
                        = {k}]_vars

\* every annotated field of the record has a non-empty claim GUID
EveryFieldHasClaim ==
    /\ AllResolved
    /\ ResolvedFields # {}
    /\ \A i \in ResolvedFields :
          HaveExistingClaim(header.PropertyIDs, PropertyOf(i))

\* C34: syncClaims with allowRefresh=false on a record whose annotated
\* fields all have a non-empty claim GUID returns success and sends no
\* request, whatever the fields hold
C34_ExistingClaimsAreSkipped ==
    [][(/\ last'.op = "UploadClaimsForItem"
        /\ ~last'.flag
        /\ ShapeErr(last'.shape) = NoErr
        /\ header.ID # ""
        /\ EveryFieldHasClaim)
       => /\ last'.err = NoErr
          /\ last'.calls = <<>>]_vars

\* the properties whose entry of the header's claim-ID map the step wrote:
\* every entry of the map a successful creation makes, an entry a sync
\* added or changed
EntriesStored ==
    IF last'.op = "CreateItemInstance"
    THEN IF last'.err = NoErr THEN DOMAIN header'.PropertyIDs ELSE {}
    ELSE IF last'.op = "UploadClaimsForItem"
    THEN {p \in DOMAIN header'.PropertyIDs :
             ~ClaimEntryUnchanged(p)}
    ELSE {}

\* C35: a value that CreateItemInstance or UploadClaimsForItem stores in
\* the header's claim-ID map is a non-empty GUID
C35_StoredClaimIDsAreNonEmpty ==
    [][\A p \in EntriesStored : header'.PropertyIDs[p] # ""]_vars

\* ---------------------------------------------------------------------
\* Claims about the codec of text
\* ---------------------------------------------------------------------

\* the codec was applied to a text: stringClaimToAPIData itself, or
\* getDataForClaim or getItemCreateClaimValue on a string field that is
\* not nil
TextEncoded ==
    /\ last.op \in {"stringClaimToAPIData", "getDataForClaim",
                    "getItemCreateClaimValue"}
    /\ fields[1].base = "string"
    /\ ~fields[1].val.nil

\* C36: a text, also one made only of whitespace, encodes without error
\* either to no value or to a value that is a non-empty normalised string
C36_NoEmptyTextValue ==
    TextEncoded =>
        /\ last.out.err = ""
        /\ ~last.out.nil =>
              /\ last.out.v.kind = "string"
              /\ last.out.v.s # <<>>
              /\ IsNormalised(last.out.v.s)

\* ---------------------------------------------------------------------
\* Claims about labels the client has no property for
\* ---------------------------------------------------------------------

\* the annotated fields whose label is not in the Label Map
Unresolved ==
    {i \in 1..Len(fields) :
        /\ fields[i].property # <<>>
        /\ fields[i].property[1] \notin DOMAIN PropertyMap}

\* the first of them
FirstUnresolved == CHOOSE i \in Unresolved : \A j \in Unresolved : i <= j

\* C37: CreateItemInstance on a record with a field that is to be created
\* and whose label is not in the Label Map returns an error and sends no
\* request; UploadClaimsForItem on a record with an annotated field whose
\* label is not in the Label Map returns an error, and every request it
\* sent is for a field before the first such field: a claim-create for the
\* property of an earlier field, a claim update of the claim of an earlier
\* field, and no more token requests and no more claim requests than there
\* are earlier fields
C37_UnresolvedLabelIsNotUploaded ==
    [][/\ (/\ last'.op = "CreateItemInstance"
           /\ \E i \in Unresolved : ~HasOmitOnCreate(fields[i].property))
          => /\ last'.err # NoErr
             /\ last'.calls = <<>>
       /\ (/\ last'.op = "UploadClaimsForItem"
           /\ Unresolved # {})
          => LET earlier == {j \in ResolvedFields : j < FirstUnresolved}
             IN /\ last'.err # NoErr
                /\ Cardinality(ClaimRequestsIn(last'.calls))
                     <= Cardinality(earlier)
                /\ Cardinality(TokenRequestsIn(last'.calls))
                     <= Cardinality(earlier)
                /\ \A k \in 1..Len(last'.calls) :
                     /\ IsCreateClaim(last'.calls[k]) =>
                          \E j \in earlier :
                             last'.calls[k].property = PropertyOf(j)
                     /\ IsUpdateClaim(last'.calls[k]) =>
                          \E j \in earlier :
                             /\ PropertyOf(j) \in DOMAIN header.PropertyIDs
                             /\ last'.calls[k].claim
                                  = header.PropertyIDs[PropertyOf(j)]
                     /\ \/ IsCreateClaim(last'.calls[k])
                        \/ IsUpdateClaim(last'.calls[k])
                        \/ IsTokenRequest(last'.calls[k])]_vars

\* a sync created the claim of the field tagged name and returned an
\* error at the field tagged test, whose label is not in the Label Map
C37_Witness ==
    /\ last.op = "UploadClaimsForItem"
    /\ last.err = Err("no-property-map", "test")
    /\ Unresolved = {2}
    /\ CreatesOf(last.calls, "P2") # {}
    /\ ClaimRequestsIn(last.calls) = CreatesOf(last.calls, "P2")
    /\ HaveExistingClaim(header.PropertyIDs, "P2")

\* ---------------------------------------------------------------------
\* Claims about what a sync leaves alone
\* ---------------------------------------------------------------------

\* the entry of p in the header's claim-ID map was added, or was empty and
\* was set, by a claim-create of this call for p that the server answered
\* with the value now stored
AddedByCreate(p) ==
    /\ ~HaveExistingClaim(header.PropertyIDs, p)
    /\ \E k \in CreatesOf(last'.calls, p) :
          /\ ClaimResponseErr(last'.calls[k].resp, p) = NoErr
          /\ header'.PropertyIDs[p] = last'.calls[k].resp.id

\* C38: UploadClaimsForItem, with or without an error, leaves the Entity
\* Reference of the header and the label maps of the client as they are,
\* keeps every entry of the claim-ID map, does not change one that was not
\* empty, and what it changes it changes to the id that the claim-create
\* of a property without claim returned
C38_SyncOnlyAddsClaimIDs ==
    [][last'.op = "UploadClaimsForItem" =>
          /\ header'.ID = header.ID
          /\ PropertyMap' = PropertyMap
          /\ ItemMap' = ItemMap
          /\ DOMAIN header.PropertyIDs \subseteq DOMAIN header'.PropertyIDs
          /\ \A p \in DOMAIN header'.PropertyIDs :
                /\ HaveExistingClaim(header.PropertyIDs, p) =>
                      header'.PropertyIDs[p] = header.PropertyIDs[p]
                /\ ~ClaimEntryUnchanged(p) => AddedByCreate(p)]_vars

\* a sync that failed at its second field had added the claim of the
\* first and left the claim that was on record as it was
C38_Witness ==
    /\ last.op = "UploadClaimsForItem"
    /\ last.err # NoErr
    /\ header.ID = "Q1"
    /\ header.PropertyIDs = [p \in PIDs |-> IF p = "P1" THEN "G1" ELSE "G2"]
    /\ CreatesOf(last.calls, "P2") # {}
    /\ CreatesOf(last.calls, "P1") = {}
    /\ PropertyMap = [l \in PropLabels |-> IF l = "test" THEN "P1" ELSE "P2"]

\* ---------------------------------------------------------------------
\* Claims about the progress of GetEditingToken
\* ---------------------------------------------------------------------

\* C39: with concurrent callers of GetEditingToken and a transport whose
\* calls return, every call returns, a goroutine that holds the exclusive
\* lock releases it, whatever its fetch gave, and a goroutine that has
\* returned holds neither lock
C39_EveryCallReturns ==
    /\ \A t \in Threads : <>(pc[t] = "done")
    /\ \A t \in Threads : (lockW = t) ~> (lockW # t)
    /\ [](\A t \in Threads :
            pc[t] = "done" => lockW # t /\ t \notin lockR)

\* every call has returned and the locks are free; one call returned the
\* error of its fetch, and a call that took the lock after it got a token
C39_Witness ==
    /\ \A t \in Threads : pc[t] = "done"
    /\ lockW = NoThread
    /\ lockR = {}
    /\ firstFetch = "fail"
    /\ \E t \in Threads : ret[t].err # "" /\ fetches[t] = 1
    /\ \E t \in Threads : ret[t].err = "" /\ fetches[t] = 1

====
